---- MODULE Spec2Model ----
(***************************************************************************)
(* Report routes of the SIT council backend (backend/routes/Pdf.js) over   *)
(* the Meeting and User collections: Meeting Minutes, Member Performance,  *)
(* Monthly Activity.                                                       *)
(* Time is counted in half days from 1 January 2025 00:00 local time.      *)
(***************************************************************************)
EXTENDS Integers, Sequences, FiniteSets, TLC

VARIABLES users, meetings, now, reqs, sessions, logo, faults

vars == <<users, meetings, now, reqs, sessions, logo, faults>>

(***************************************************************************)
(* Bounds of the model.                                                    *)
(***************************************************************************)
\* stored meetings
MaxMeetings == 3
\* attendee entries over all stored meetings, where the attendee lists vary
MaxAttendees == 2
\* action items over all stored meetings, where the action items vary
MaxItems == 2

(***************************************************************************)
(* JavaScript values.                                                      *)
(***************************************************************************)
\* undefined / null string-valued property
Undefined == "<undefined>"
\* an absent Date
NoDate == 0 - 1
\* an ObjectId reference that is not set
NoRef == "<none>"

Falsy(s) == s \in {Undefined, ""}

\* a || b on strings
OrElse(s, d) == IF Falsy(s) THEN d ELSE s

\* s.charAt(0).toUpperCase() + s.slice(1)
Capitalize(s) ==
    CASE s = "pending" -> "Pending"
      [] s = "present" -> "Present"
      [] s = "absent" -> "Absent"
      [] s = "late" -> "Late"
      [] s = "in-progress" -> "In-progress"
      [] s = "completed" -> "Completed"
      [] s = "overdue" -> "Overdue"
      [] s = "regular" -> "Regular"
      [] s = "random" -> "Random"
      [] s = "special" -> "Special"
      [] s = "committee" -> "Committee"
      [] s = "scheduled" -> "Scheduled"
      [] s = "cancelled" -> "Cancelled"
      [] OTHER -> s

(***************************************************************************)
(* Calendar: Date values as half days of the year 2025.                    *)
(***************************************************************************)
Years == {2025}

MonthLen == <<31, 28, 31, 30, 31, 30, 31, 31, 30, 31, 30, 31>>

MonthNames == <<"January", "February", "March", "April", "May", "June",
                "July", "August", "September", "October", "November", "December">>

RECURSIVE DaysBefore(_)
\* days of the year before the first day of month m (1-based)
DaysBefore(m) == IF m <= 1 THEN 0 ELSE DaysBefore(m - 1) + MonthLen[m - 1]

\* new Date(year, monthIndex, day): local midnight; day 0 is the last day of the month before
JsDate(monthIndex, day) == 2 * (DaysBefore(monthIndex + 1) + day - 1)

DayOfYear(d) == d \div 2

MonthOf(d) == CHOOSE m \in 1..12 : DaysBefore(m) <= DayOfYear(d) /\ DayOfYear(d) < DaysBefore(m) + MonthLen[m]

DayOfMonth(d) == DayOfYear(d) - DaysBefore(MonthOf(d)) + 1

\* formatDate(date): toLocaleDateString('en-US', long month)
formatDate(d) ==
    IF d = NoDate THEN "N/A"
    ELSE MonthNames[MonthOf(d)] \o " " \o ToString(DayOfMonth(d)) \o ", 2025"

\* getMonthName(month)
getMonthName(month) == IF month \in 1..12 THEN MonthNames[month] ELSE "Unknown"

(***************************************************************************)
(* Schemas.                                                                *)
(***************************************************************************)
Roles == {"President", "Vice President", "Secretary", "Treasurer", "PRO",
          "Coordinator", "Member", "Guest"}

AttendeeStatuses == {"pending", "present", "absent", "late"}

ActionStatuses == {"pending", "in-progress", "completed", "overdue"}

\* a Number property that is not set
NoNumber == 0 - 1

\* the performance block of the User schema; rating is counted in hundredths
Performance(meetingsAttended, tasksCompleted, rating, streak, points, achievements) ==
    [meetingsAttended |-> meetingsAttended, tasksCompleted |-> tasksCompleted, rating |-> rating,
     streak |-> streak, points |-> points, achievements |-> achievements]

\* the block as the schema defaults fill it
DefaultPerformance == Performance(0, 0, 0, 0, 0, <<>>)

User(id, name, role) == [id |-> id, name |-> name, role |-> role, performance |-> DefaultPerformance]

Attendee(user, status) == [user |-> user, status |-> status]

ActionItem(task, assignee, deadline, status) ==
    [task |-> task, assignee |-> assignee, deadline |-> deadline, status |-> status]

AgendaItem(title, presenter, description, status) ==
    [title |-> title, presenter |-> presenter, duration |-> 15,
     description |-> description, status |-> status]

NoNextMeeting == [date |-> NoDate, time |-> Undefined, location |-> Undefined, agenda |-> Undefined]

Meeting(id, title, date, createdBy, objective, attendees, agenda, actionItems) ==
    [id |-> id, title |-> title, type |-> "regular", date |-> date,
     startTime |-> "10:00", endTime |-> "11:00", location |-> Undefined,
     chairperson |-> "u1", minutesTaker |-> NoRef, objective |-> objective,
     attendees |-> attendees, agenda |-> agenda,
     minutes |-> [summary |-> Undefined, decisions |-> <<>>,
                  actionItems |-> actionItems, nextMeeting |-> NoNextMeeting],
     status |-> "scheduled", createdBy |-> createdBy]

(***************************************************************************)
(* The stored records the reports read.                                    *)
(***************************************************************************)
\* User collection in insertion order
StoredUsers == <<User("u1", "Ann", "Secretary"), User("u2", "Bob", "Member"),
                 User("u3", "Cy", "Guest")>>

\* an id no stored user has: a reference to a user that was removed
GhostId == "u9"

\* an identity whose role is the 'Admin' the permission checks name
AdminCaller == User("u0", "Root", "Admin")

\* req.user as set by the protect middleware; the third one is the identity of a
\* user whose record was removed after the middleware read it
Callers == {User("u1", "Ann", "Secretary"), User("u2", "Bob", "Member"),
            User(GhostId, "Zed", "Member"), AdminCaller}

\* the identities of two stored users
MemberCallers == {User("u1", "Ann", "Secretary"), User("u2", "Bob", "Member")}

MeetingIds == <<"m1", "m2", "m3", "m4", "m5">>

\* an id no stored meeting has
MissingId == "m0"

\* meeting dates in insertion order, all within January, not in date order
MeetingDates == <<JsDate(0, 20) + 1, JsDate(0, 5), JsDate(0, 31), JsDate(0, 10) + 1, JsDate(0, 1)>>

\* the last value of the clock: 10 February
ReportTime == JsDate(1, 10)

\* the value of the clock a day before
EarlyTime == ReportTime - 2

\* the attendee entries the stored meetings draw from
AttendeeKinds ==
    {Attendee("u1", s) : s \in AttendeeStatuses} \cup {Attendee("u2", "present"), Attendee("u2", "absent")}

\* the action items the stored meetings draw from: every status past its
\* deadline, and the deadlines that are unset, due right now and still ahead
ActionItemKinds ==
    {ActionItem("Book the hall", NoRef, ReportTime - 10, s) : s \in ActionStatuses}
        \cup {ActionItem("Book the hall", NoRef, NoDate, s) : s \in {"pending", "overdue"}}
        \cup {ActionItem("Book the hall", NoRef, ReportTime, "pending"),
              ActionItem("Book the hall", NoRef, ReportTime + 10, "overdue")}

RECURSIVE ListSeqs(_, _, _)
\* the sequences of m lists over S holding at most k elements together
ListSeqs(S, m, k) ==
    IF m = 0 THEN {<<>>}
    ELSE UNION {{<<l>> \o rest : l \in [1..j -> S], rest \in ListSeqs(S, m - 1, k - j)} : j \in 0..k}

StoredMeeting(i, attendees, actionItems) ==
    Meeting(MeetingIds[i], "Meeting " \o ToString(i), MeetingDates[i],
            IF i % 2 = 1 THEN "u1" ELSE "u2",
            IF i = 1 THEN "Plan the term" ELSE Undefined,
            attendees,
            IF i = 1 THEN <<AgendaItem("Budget", Undefined, "Review", "pending")>> ELSE <<>>,
            actionItems)

\* meetings that differ in their attendee lists
InitAttendance ==
    \E m \in 0..MaxMeetings : \E atts \in ListSeqs(AttendeeKinds, m, MaxAttendees) :
        meetings = [i \in 1..m |-> StoredMeeting(i, atts[i], <<>>)]

\* meetings that differ in their action items
InitActionItems ==
    \E m \in 1..MaxMeetings : \E its \in ListSeqs(ActionItemKinds, m, MaxItems) :
        meetings = [i \in 1..m |-> StoredMeeting(i, <<Attendee("u1", "present"), Attendee("u2", "present"), Attendee("u3", "absent")>>, its[i])]

\* meeting dates around the ends of February: 31 January noon, 1 February 00:00,
\* 28 February 00:00, 28 February noon, 1 March 00:00
DateChoices == {JsDate(0, 31) + 1, JsDate(1, 1), JsDate(1, 28), JsDate(1, 28) + 1, JsDate(2, 1)}

\* two meetings that differ in their dates
InitDates ==
    \E ds \in [1..2 -> DateChoices] :
        meetings = [i \in 1..2 |->
            [StoredMeeting(i, <<Attendee("u1", "present")>>,
                           <<ActionItem("Book the hall", NoRef, ReportTime - 10, "pending")>>)
                EXCEPT !.date = ds[i]]]

\* one meeting that differs in what its references name: a stored user, a
\* removed user, or nothing where the schema does not require the reference
InitReferences ==
    \E chair \in {"u1", GhostId}, taker \in {NoRef, "u2", GhostId},
       attendee \in {"u2", GhostId}, assignee \in {NoRef, "u2", GhostId} :
        meetings = <<[StoredMeeting(1, <<Attendee(attendee, "present")>>,
                                    <<ActionItem("Book the hall", assignee, ReportTime - 10, "pending")>>)
                        EXCEPT !.chairperson = chair, !.minutesTaker = taker]>>

\* one meeting that differs in its optional parts
InitContent ==
    \E objective \in {Undefined, "Plan the term"},
       agenda \in {<<>>, <<AgendaItem("Budget", "Ann", Undefined, "pending")>>},
       summary \in {Undefined, "All present agreed."},
       decisions \in {<<>>, <<"Hold the fair in May">>},
       items \in {<<>>, <<ActionItem("Book the hall", "u2", ReportTime + 10, "in-progress")>>},
       next \in {NoNextMeeting,
                 [date |-> ReportTime + 20, time |-> "10:00", location |-> Undefined, agenda |-> "Elections"]} :
        meetings = <<[StoredMeeting(1, <<Attendee("u1", "present")>>, items)
                        EXCEPT !.objective = objective, !.agenda = agenda,
                               !.minutes.summary = summary, !.minutes.decisions = decisions,
                               !.minutes.nextMeeting = next]>>

\* task texts of 13, 50, 51 and 64 characters
TaskChoices ==
    {"Book the hall",
     "Send the invitations for the spring fair to alumni",
     "Send the invitations for the spring fair to alumni.",
     "Collect the receipts of every committee and hand them to finance"}

\* one meeting that differs in the task text of its action item, past its deadline
InitTasks ==
    \E task \in TaskChoices :
        meetings = <<StoredMeeting(1, <<Attendee("u1", "present")>>,
                                   <<ActionItem(task, "u2", ReportTime - 10, "pending")>>)>>

\* the users a User collection is drawn from, in insertion order
UserPool == <<User("u4", "Dee", "Guest"), User("u1", "Ann", "Secretary"), User("u2", "Bob", "Member"),
              User("u3", "Cy", "Guest"), User("u5", "Eli", "President")>>

\* the collections that hold the secretary
UserLists ==
    {SelectSeq(UserPool, LAMBDA u : u.id \in ids) : ids \in {S \in SUBSET {"u1", "u2", "u3", "u4", "u5"} : "u1" \in S}}

(***************************************************************************)
(* Requests: one record per request slot.                                  *)
(***************************************************************************)
SlotIds == {"r1", "r2"}

\* the request slots in use
Slots == DOMAIN reqs

NoCaller == User(NoRef, Undefined, Undefined)

\* status 0: no response sent yet; body: what res carries; authorized: the
\* permission check has let the caller pass; reads: the collections read so
\* far; fault: an awaited store read was rejected
IdleReq ==
    [pc |-> "idle", route |-> "none", caller |-> NoCaller, meetingId |-> NoRef,
     authorized |-> FALSE, reads |-> <<>>, fault |-> FALSE,
     userId |-> NoRef, month |-> 0, found |-> <<>>, status |-> 0, body |-> "none",
     piped |-> FALSE, ended |-> FALSE, doc |-> <<>>,
     attendanceStats |-> <<>>, allActionItems |-> <<>>,
     pending |-> <<>>, inProgress |-> <<>>, completed |-> <<>>, overdue |-> <<>>,
     builtAt |-> NoDate]

\* stored performance blocks: the defaults, values that no meeting record
\* accounts for, ratings with two decimals, and a block whose numbers are not set
PerformanceChoices ==
    {DefaultPerformance,
     Performance(7, 3, 450, 2, 120, <<"Best speaker">>),
     Performance(1, 12, 425, 4, 35, <<>>),
     Performance(40, 9, 375, 1, 10, <<"Full attendance", "Treasurer of the year">>),
     Performance(2, 0, 500, 0, 5, <<>>),
     Performance(NoNumber, NoNumber, NoNumber, NoNumber, NoNumber, <<>>)}

\* the fixed meetings of the profiles that vary something else
FixedMeetings ==
    <<StoredMeeting(1, <<Attendee("u1", "present"), Attendee("u2", "absent")>>,
                    <<ActionItem("Book the hall", "u2", EarlyTime, "pending"),
                      ActionItem("Print the posters", NoRef, ReportTime - 10, "completed")>>),
      StoredMeeting(2, <<Attendee("u1", "late")>>, <<>>)>>

\* one request at a time by the callers but the Admin, every read succeeding
OneSlot ==
    /\ reqs = [r \in {"r1"} |-> IdleReq]
    /\ sessions = Callers \ {AdminCaller}
    /\ logo = TRUE
    /\ faults = 0

\* user collections that differ in their members, one request at a time
InitMembers ==
    /\ users \in UserLists
    /\ meetings = FixedMeetings
    /\ OneSlot

\* user collections that differ in the stored performance of two users
InitPerformance ==
    /\ \E p1, p2 \in PerformanceChoices :
          users = <<[User("u1", "Ann", "Secretary") EXCEPT !.performance = p1],
                    [User("u2", "Bob", "Member") EXCEPT !.performance = p2]>>
    /\ meetings = FixedMeetings
    /\ OneSlot

\* two requests in flight over the same records, by every caller
InitConcurrent ==
    /\ users = StoredUsers
    /\ meetings = FixedMeetings
    /\ reqs = [r \in {"r1", "r2"} |-> IdleReq]
    /\ sessions = Callers
    /\ logo = TRUE
    /\ faults = 0

\* the most store reads that fail in one run
MaxFaults == 1

\* two requests in flight while a store read may fail and the logo file may be
\* out of reach
InitFaulty ==
    /\ users = StoredUsers
    /\ meetings = FixedMeetings
    /\ reqs = [r \in {"r1", "r2"} |-> IdleReq]
    /\ sessions = MemberCallers
    /\ logo \in BOOLEAN
    /\ faults \in 0..MaxFaults

\* the large collections are read at the last value of the clock, the small
\* ones from a day before on
Init ==
    \/ /\ now = ReportTime
       /\ users = StoredUsers
       /\ reqs = [r \in {"r1"} |-> IdleReq]
       /\ sessions = MemberCallers
       /\ logo = TRUE
       /\ faults = 0
       /\ InitAttendance \/ InitActionItems
    \/ /\ now = EarlyTime
       /\ \/ /\ users = StoredUsers
             /\ OneSlot
             /\ InitDates \/ InitReferences \/ InitContent \/ InitTasks
          \/ InitMembers
          \/ InitPerformance
          \/ InitConcurrent
          \/ InitFaulty

(***************************************************************************)
(* Store reads.                                                            *)
(***************************************************************************)
RECURSIVE Flatten(_)
\* the concatenation of a sequence of sequences
Flatten(ss) == IF ss = <<>> THEN <<>> ELSE Head(ss) \o Flatten(Tail(ss))

RECURSIVE SortByDate(_)
\* .sort('date'): ascending, records of equal date keep their order
SortByDate(ms) ==
    IF ms = <<>> THEN <<>>
    ELSE LET last == ms[Len(ms)]
             front == SortByDate(SubSeq(ms, 1, Len(ms) - 1))
         IN  SelectSeq(front, LAMBDA m : m.date <= last.date) \o <<last>>
             \o SelectSeq(front, LAMBDA m : m.date > last.date)

\* Meeting.find({date: {$gte: startDate, $lte: endDate}}).sort('date')
FindMeetings(startDate, endDate) ==
    SortByDate(SelectSeq(meetings, LAMBDA m : m.date >= startDate /\ m.date <= endDate))

\* every stored user, guests too
FindUsersAll == users

\* User.find({role: {$ne: 'Guest'}})
FindUsers == SelectSeq(users, LAMBDA u : u.role # "Guest")

\* a lookup that falls back to the first stored meeting
FindMeetingByIdOrFirst(id) ==
    IF \E i \in 1..Len(meetings) : meetings[i].id = id
    THEN SelectSeq(meetings, LAMBDA m : m.id = id)
    ELSE IF meetings = <<>> THEN <<>> ELSE <<meetings[1]>>

\* Meeting.findById(id): the stored meetings with that id, none when there is no such meeting
FindMeetingById(id) == SelectSeq(meetings, LAMBDA m : m.id = id)

\* populate(path, 'name role'): the referenced user, null when the reference does not resolve
Populate(ref) ==
    LET hit == SelectSeq(users, LAMBDA u : u.id = ref)
    IN  IF hit = <<>> THEN [name |-> Undefined, role |-> Undefined]
        ELSE [name |-> hit[1].name, role |-> hit[1].role]

\* .name of a reference that was not populated: an ObjectId has no such property
UnpopulatedName(ref) == Undefined

(***************************************************************************)
(* Metric calculations of the Monthly Activity report.                     *)
(***************************************************************************)
\* the decimal digits of n tenths with one fractional digit
FormatTenths(t) == ToString(t \div 10) \o "." \o ToString(t % 10)

\* (attended / total * 100).toFixed(1): the nearest tenth, a tie going up
\* (exact for total < 16, where no quotient lies within rounding error of a tie)
ToFixed1(attended, total) == FormatTenths((2000 * attended + total) \div (2 * total))

\* the rate without the guard: 0 / 0 * 100 is NaN, and NaN.toFixed(1) is 'NaN'
AttendanceRateUnguarded(attended, total) == IF total = 0 THEN "NaN" ELSE ToFixed1(attended, total)

\* meetings.length > 0 ? (attended / meetings.length * 100).toFixed(1) : '0.0'
AttendanceRate(attended, total) == IF total > 0 THEN ToFixed1(attended, total) ELSE "0.0"

\* attendance that looks at the status of the entry
AttendsPresent(meeting, user) ==
    \E i \in 1..Len(meeting.attendees) :
        /\ meeting.attendees[i].user = user.id
        /\ meeting.attendees[i].status \in {"present", "late"}

\* meeting.attendees.some(att => att.user && att.user.toString() === user._id.toString())
Attends(meeting, user) ==
    \E i \in 1..Len(meeting.attendees) :
        meeting.attendees[i].user # NoRef /\ meeting.attendees[i].user = user.id

\* one element per attendee entry of the user instead of one per meeting
UserMeetingsPerEntry(found, user) ==
    Flatten([k \in 1..Len(found) |-> SelectSeq(found[k].attendees, LAMBDA a : a.user = user.id)])

\* meetings.filter(meeting => meeting.attendees.some(...))
UserMeetings(found, user) == SelectSeq(found, LAMBDA m : Attends(m, user))

AttendanceStat(found, user) ==
    [name |-> user.name, role |-> user.role, totalMeetings |-> Len(found),
     attended |-> Len(UserMeetings(found, user)),
     attendanceRate |-> AttendanceRate(Len(UserMeetings(found, user)), Len(found))]

\* users.map(user => ...)
AttendanceStats(found, us) == [i \in 1..Len(us) |-> AttendanceStat(found, us[i])]

\* overdue from the deadline on, not only after it
IsOverdueInclusive(deadline, status, at) == deadline # NoDate /\ deadline <= at /\ status # "completed"

\* item.deadline && new Date(item.deadline) < new Date() && item.status !== 'completed'
IsOverdue(deadline, status, at) == deadline # NoDate /\ deadline < at /\ status # "completed"

CollectedItem(meeting, item) ==
    [task |-> item.task, meeting |-> meeting.title,
     assignee |-> OrElse(UnpopulatedName(item.assignee), "Unassigned"),
     deadline |-> item.deadline, status |-> item.status]

\* the first action item of each meeting only
AllActionItemsFirstOnly(found) ==
    Flatten([i \in 1..Len(found) |->
        [j \in 1..(IF Len(found[i].minutes.actionItems) > 0 THEN 1 ELSE 0) |->
            CollectedItem(found[i], found[i].minutes.actionItems[j])]])

\* meetings.forEach(meeting => meeting.minutes.actionItems.forEach(item => allActionItems.push(...)))
AllActionItems(found) ==
    Flatten([i \in 1..Len(found) |->
        [j \in 1..Len(found[i].minutes.actionItems) |->
            CollectedItem(found[i], found[i].minutes.actionItems[j])]])

\* the items of a stored status that are not past their deadline
WithStatusOnTrack(items, status) ==
    SelectSeq(items, LAMBDA it : it.status = status /\ ~(it.deadline # NoDate /\ it.deadline < now))

WithStatus(items, status) == SelectSeq(items, LAMBDA it : it.status = status)

\* the overdue group read from the stored status
OverdueAsStored(items, at) == SelectSeq(items, LAMBDA it : it.status = "overdue")

Overdue(items, at) == SelectSeq(items, LAMBDA it : IsOverdue(it.deadline, it.status, at))

(***************************************************************************)
(* The document: the sequence of drawing operations issued on the          *)
(* PDFDocument, each tagged with the report section it belongs to.         *)
(***************************************************************************)
Op(kind, sec, cells) == [kind |-> kind, sec |-> sec, cells |-> cells]

Heading(sec, text) == Op("Heading", sec, <<text>>)

Text(sec, text) == Op("Text", sec, <<text>>)

\* doc.addPage()
PageBreak(sec) == Op("PageBreak", sec, <<>>)

(***************************************************************************)
(* Monthly Activity report: GET /monthly-report/:year/:month               *)
(***************************************************************************)
\* a header that carries the day of the build
MonthlyHeaderDated(month) ==
    <<Heading("Header", "SIT STUDENT COUNCIL"),
      Heading("Header", "MONTHLY ACTIVITY REPORT"),
      Heading("Header", getMonthName(month) \o " 2025, as of " \o formatDate(now))>>

MonthlyHeader(month) ==
    <<Heading("Header", "SIT STUDENT COUNCIL"),
      Heading("Header", "MONTHLY ACTIVITY REPORT"),
      Heading("Header", getMonthName(month) \o " 2025")>>

\* a summary whose period line is signed by the caller too
MonthlyExecutiveSummarySigned(found, us, caller, startDate, endDate) ==
    <<Heading("ExecutiveSummary", "EXECUTIVE SUMMARY"),
      Text("ExecutiveSummary", "Total Meetings: " \o ToString(Len(found))),
      Text("ExecutiveSummary", "Total Council Members: " \o ToString(Len(us))),
      Text("ExecutiveSummary", "Report Period: " \o formatDate(startDate) \o " to " \o formatDate(endDate)
                                \o ", for " \o caller.name),
      Text("ExecutiveSummary", "Generated By: " \o caller.name \o " (" \o caller.role \o ")")>>

MonthlyExecutiveSummary(found, us, caller, startDate, endDate) ==
    <<Heading("ExecutiveSummary", "EXECUTIVE SUMMARY"),
      Text("ExecutiveSummary", "Total Meetings: " \o ToString(Len(found))),
      Text("ExecutiveSummary", "Total Council Members: " \o ToString(Len(us))),
      Text("ExecutiveSummary", "Report Period: " \o formatDate(startDate) \o " to " \o formatDate(endDate)),
      Text("ExecutiveSummary", "Generated By: " \o caller.name \o " (" \o caller.role \o ")")>>

MonthlyMeetingsSummary(found) ==
    IF Len(found) > 0
    THEN <<Heading("MeetingsSummary", "MEETINGS SUMMARY")>> \o
         Flatten([i \in 1..Len(found) |->
            <<Text("MeetingsSummary", ToString(i) \o ". " \o found[i].title),
              Text("MeetingsSummary", "Date: " \o formatDate(found[i].date) \o " | Type: " \o found[i].type
                                       \o " | Status: " \o found[i].status)>>])
    ELSE <<>>

AttendanceTableHeader == Op("TableHeader", "AttendanceStatistics", <<"Member", "Role", "Total", "Attended", "Rate %">>)

AttendanceRow(stat) ==
    Op("Row", "AttendanceStatistics",
       <<stat.name, stat.role, ToString(stat.totalMeetings), ToString(stat.attended), stat.attendanceRate>>)

\* the attendance table with a body only when a meeting is in range
MonthlyAttendanceNoBody(stats) ==
    <<PageBreak("AttendanceStatistics"),
      Heading("AttendanceStatistics", "ATTENDANCE STATISTICS"),
      Op("TableHeader", "AttendanceStatistics", <<"Member", "Role", "Total", "Attended", "Rate %">>)>> \o
    SelectSeq([i \in 1..Len(stats) |->
                  Op("Row", "AttendanceStatistics",
                     <<stats[i].name, stats[i].role, ToString(stats[i].totalMeetings),
                       ToString(stats[i].attended), stats[i].attendanceRate>>)],
              LAMBDA o : o.cells[3] # "0")

MonthlyAttendance(stats) ==
    <<PageBreak("AttendanceStatistics"),
      Heading("AttendanceStatistics", "ATTENDANCE STATISTICS"),
      AttendanceTableHeader>> \o
    [i \in 1..Len(stats) |-> AttendanceRow(stats[i])]

OverdueList(overdue) ==
    IF Len(overdue) > 0
    THEN <<Heading("ActionItemsSummary", "OVERDUE ACTION ITEMS:")>> \o
         Flatten([i \in 1..Len(overdue) |->
            <<Text("ActionItemsSummary", ToString(i) \o ". " \o overdue[i].task),
              Text("ActionItemsSummary", "Assignee: " \o overdue[i].assignee \o " | Meeting: " \o overdue[i].meeting
                                          \o " | Due: " \o formatDate(overdue[i].deadline))>>])
    ELSE <<>>

MonthlyActionItems(all, at) ==
    <<PageBreak("ActionItemsSummary"),
      Heading("ActionItemsSummary", "ACTION ITEMS SUMMARY")>> \o
    IF Len(all) > 0
    THEN <<Text("ActionItemsSummary", "Total Action Items: " \o ToString(Len(all))),
           Text("ActionItemsSummary", "Pending: " \o ToString(Len(WithStatus(all, "pending")))
                                       \o " | In Progress: " \o ToString(Len(WithStatus(all, "in-progress")))
                                       \o " | Completed: " \o ToString(Len(WithStatus(all, "completed")))),
           Text("ActionItemsSummary", "Overdue: " \o ToString(Len(Overdue(all, at))))>> \o
         OverdueList(Overdue(all, at))
    ELSE <<>>

\* const completed and const overdue are declared inside the block of
\* if (allActionItems.length > 0) and are not in scope where the achievements and
\* improvements arrays read them: evaluating the arrays throws a ReferenceError
GroupsInScope == FALSE

MonthlyRecommendations(found, us, completed, overdue) ==
    <<PageBreak("Recommendations"),
      Heading("Recommendations", "RECOMMENDATIONS & NOTES"),
      Text("Recommendations", "Key Achievements:")>> \o
    IF GroupsInScope
    THEN <<Text("Recommendations", "Successfully conducted " \o ToString(Len(found)) \o " meetings"),
           Text("Recommendations", ToString(Len(completed)) \o " action items completed"),
           Text("Recommendations", ToString(Len(us)) \o " active council members"),
           Text("Recommendations", "Areas for Improvement:"),
           Text("Recommendations", IF Len(overdue) > 0
                                   THEN "Address " \o ToString(Len(overdue)) \o " overdue action items"
                                   ELSE "All action items are on track"),
           Text("Recommendations", IF Len(found) < 4 THEN "Consider increasing meeting frequency"
                                   ELSE "Meeting frequency is adequate"),
           Text("Recommendations", "Continue monitoring member participation")>>
    ELSE <<>>

MonthlyFooter(at) ==
    <<Op("Footer", "Footer", <<"Report Generated: " \o formatDate(at),
                               "Confidential - SIT Student Council Internal Use Only", "Page">>)>>

\* the synchronous remainder of the handler once both reads have returned
MonthlyBuild(q, us, at) ==
    LET found == q.found
        startDate == JsDate(q.month - 1, 1)
        endDate == JsDate(q.month, 0)
        stats == AttendanceStats(found, us)
        all == AllActionItems(found)
        grouped == Len(all) > 0
        pending == IF grouped THEN WithStatus(all, "pending") ELSE <<>>
        inProgress == IF grouped THEN WithStatus(all, "in-progress") ELSE <<>>
        completed == IF grouped THEN WithStatus(all, "completed") ELSE <<>>
        overdue == IF grouped THEN Overdue(all, at) ELSE <<>>
        upToThrow == MonthlyHeader(q.month)
                     \o MonthlyExecutiveSummary(found, us, q.caller, startDate, endDate)
                     \o MonthlyMeetingsSummary(found)
                     \o MonthlyAttendance(stats)
                     \o MonthlyActionItems(all, at)
                     \o MonthlyRecommendations(found, us, completed, overdue)
    IN  [q EXCEPT !.pc = "done", !.piped = TRUE, !.builtAt = at,
                  !.attendanceStats = stats, !.allActionItems = all,
                  !.pending = pending, !.inProgress = inProgress,
                  !.completed = completed, !.overdue = overdue,
                  !.doc = IF GroupsInScope THEN upToThrow \o MonthlyFooter(at) ELSE upToThrow,
                  !.ended = GroupsInScope,
                  !.status = IF GroupsInScope THEN 200 ELSE 500,
                  !.body = IF GroupsInScope THEN "pdf" ELSE "json"]

(***************************************************************************)
(* Meeting Minutes report: GET /generate/:meetingId                        *)
(***************************************************************************)
\* the meeting with its chairperson, minutesTaker, attendees.user and
\* minutes.actionItems.assignee references replaced by the users they name
PopulateMeeting(m) ==
    [m EXCEPT !.chairperson = Populate(m.chairperson),
              !.minutesTaker = Populate(m.minutesTaker),
              !.attendees = [i \in 1..Len(m.attendees) |->
                                [m.attendees[i] EXCEPT !.user = Populate(m.attendees[i].user)]],
              !.minutes.actionItems = [i \in 1..Len(m.minutes.actionItems) |->
                                [m.minutes.actionItems[i] EXCEPT !.assignee = Populate(m.minutes.actionItems[i].assignee)]]]

MinutesHeader ==
    <<Op("Image", "Header", <<"public/assets/logo.png">>),
      Heading("Header", "SIT STUDENT COUNCIL"),
      Heading("Header", "OFFICIAL MEETING MINUTES")>>

MinutesDetails(m) ==
    <<Heading("Details", "MEETING DETAILS"),
      Text("Details", "Title: " \o m.title),
      Text("Details", "Date: " \o formatDate(m.date)),
      Text("Details", "Type: " \o Capitalize(m.type)),
      Text("Details", "Time: " \o m.startTime \o " - " \o m.endTime),
      Text("Details", "Location: " \o OrElse(m.location, "Not specified")),
      Text("Details", "Status: " \o Capitalize(m.status)),
      Text("Details", "Chairperson: " \o OrElse(m.chairperson.name, "Not specified")),
      Text("Details", "Minutes Taker: " \o OrElse(m.minutesTaker.name, "Not specified"))>>

MinutesObjectives(m) ==
    IF ~Falsy(m.objective)
    THEN <<Heading("Objectives", "MEETING OBJECTIVES"), Text("Objectives", m.objective)>>
    ELSE <<>>

\* an entry without the defaults for a user that did not resolve
AttendeeEntryRaw(attendee, i) ==
    Op("Entry", "Attendees",
       <<ToString(i) \o ". " \o attendee.user.name \o " - " \o attendee.user.role,
         "(" \o Capitalize(OrElse(attendee.status, "pending")) \o ")">>)

AttendeeEntry(attendee, i) ==
    Op("Entry", "Attendees",
       <<ToString(i) \o ". " \o OrElse(attendee.user.name, "Unknown") \o " - " \o OrElse(attendee.user.role, "Member"),
         "(" \o Capitalize(OrElse(attendee.status, "pending")) \o ")">>)

MinutesAttendees(m) ==
    <<PageBreak("Attendees"), Heading("Attendees", "ATTENDEES")>> \o
    [i \in 1..Len(m.attendees) |-> AttendeeEntry(m.attendees[i], i)]

AgendaEntry(item, i) ==
    <<Text("Agenda", ToString(i) \o ". " \o item.title),
      Text("Agenda", "Presenter: " \o OrElse(item.presenter, "Not specified") \o " | Duration: "
                      \o ToString(item.duration) \o " mins | Status: " \o OrElse(item.status, "pending"))>> \o
    IF ~Falsy(item.description) THEN <<Text("Agenda", "Description: " \o item.description)>> ELSE <<>>

\* the agenda on the page of the attendees
MinutesAgendaSamePage(m) ==
    IF Len(m.agenda) > 0
    THEN <<Heading("Agenda", "AGENDA ITEMS")>> \o
         Flatten([i \in 1..Len(m.agenda) |-> AgendaEntry(m.agenda[i], i)])
    ELSE <<>>

MinutesAgenda(m) ==
    IF Len(m.agenda) > 0
    THEN <<PageBreak("Agenda"), Heading("Agenda", "AGENDA ITEMS")>> \o
         Flatten([i \in 1..Len(m.agenda) |-> AgendaEntry(m.agenda[i], i)])
    ELSE <<>>

\* the longest task text a table cell shows in full
TaskCellMax == 50

\* the marker added from 50 characters on
TaskCellAtLimit(task) ==
    IF Len(task) >= TaskCellMax THEN SubSeq(task, 1, TaskCellMax) \o "..." ELSE task

\* item.task.substring(0, 50) + (item.task.length > 50 ? '...' : '')
TaskCell(task) ==
    IF Len(task) > TaskCellMax THEN SubSeq(task, 1, TaskCellMax) \o "..." ELSE task

ActionItemsTableHeader == Op("TableHeader", "Minutes", <<"Task", "Assignee", "Deadline", "Status">>)

\* a row whose status cell is recomputed from the deadline
ActionItemRowFlagged(item) ==
    Op("Row", "Minutes",
       <<item.task, OrElse(item.assignee.name, "Unassigned"), formatDate(item.deadline),
         IF item.deadline # NoDate /\ item.deadline < now /\ item.status # "completed"
         THEN "Overdue" ELSE Capitalize(item.status)>>)

\* one table row: the status cell is the stored status, capitalised
ActionItemRow(item) ==
    Op("Row", "Minutes",
       <<TaskCell(item.task), OrElse(item.assignee.name, "Unassigned"),
         formatDate(item.deadline), Capitalize(item.status)>>)

\* the table without its last row
ActionItemsTableShort(items) ==
    IF Len(items) > 0
    THEN <<Text("Minutes", "Action Items:"), Op("TableHeader", "Minutes", <<"Task", "Assignee", "Deadline", "Status">>)>> \o
         [i \in 1..(Len(items) - 1) |->
            Op("Row", "Minutes", <<items[i].task, OrElse(items[i].assignee.name, "Unassigned"),
                                    formatDate(items[i].deadline), Capitalize(items[i].status)>>)]
    ELSE <<>>

\* the table with its header also when there is no item
ActionItemsTableAlways(items) ==
    <<Text("Minutes", "Action Items:"), Op("TableHeader", "Minutes", <<"Task", "Assignee", "Deadline", "Status">>)>> \o
    [i \in 1..Len(items) |->
        Op("Row", "Minutes", <<items[i].task, OrElse(items[i].assignee.name, "Unassigned"),
                                formatDate(items[i].deadline), Capitalize(items[i].status)>>)]

\* if (meeting.minutes.actionItems && meeting.minutes.actionItems.length > 0)
ActionItemsTable(items) ==
    IF Len(items) > 0
    THEN <<Text("Minutes", "Action Items:"), ActionItemsTableHeader>> \o
         [i \in 1..Len(items) |-> ActionItemRow(items[i])]
    ELSE <<>>

\* minutes.nextMeeting is a nested path of the schema: the hydrated document
\* always carries it as an object, so if (meeting.minutes.nextMeeting) is taken
NextMeetingSection(next) ==
    <<PageBreak("NextMeeting"), Heading("NextMeeting", "NEXT MEETING"),
      Text("NextMeeting", "Date: " \o formatDate(next.date)),
      Text("NextMeeting", "Time: " \o OrElse(next.time, "To be determined")),
      Text("NextMeeting", "Location: " \o OrElse(next.location, "To be determined"))>> \o
    IF ~Falsy(next.agenda)
    THEN <<Text("NextMeeting", "Proposed Agenda:"), Text("NextMeeting", next.agenda)>>
    ELSE <<>>

\* minutes is a nested path too: if (meeting.minutes) is always taken
MinutesSection(m) ==
    <<PageBreak("Minutes"), Heading("Minutes", "MEETING MINUTES")>> \o
    (IF ~Falsy(m.minutes.summary)
     THEN <<Text("Minutes", "Summary:"), Text("Minutes", m.minutes.summary)>> ELSE <<>>) \o
    (IF Len(m.minutes.decisions) > 0
     THEN <<Text("Minutes", "Decisions Made:")>> \o
          [i \in 1..Len(m.minutes.decisions) |-> Text("Minutes", ToString(i) \o ". " \o m.minutes.decisions[i])]
     ELSE <<>>) \o
    ActionItemsTable(m.minutes.actionItems) \o
    NextMeetingSection(m.minutes.nextMeeting)

MinutesApprovals(m) ==
    <<PageBreak("Approvals"), Heading("Approvals", "APPROVALS"),
      Op("Signature", "Approvals", <<"Prepared by:", OrElse(m.minutesTaker.name, "Secretary"),
                                     OrElse(m.minutesTaker.role, "SIT Student Council")>>),
      Op("Signature", "Approvals", <<"Approved by:", OrElse(m.chairperson.name, "Chairperson"),
                                     OrElse(m.chairperson.role, "SIT Student Council")>>)>>

MinutesFooter(m, at) ==
    <<Op("Footer", "Footer", <<"Document ID: SIT-MIN-" \o m.id, "Generated: " \o formatDate(at), "Page">>)>>

\* the agenda ahead of the attendees
MinutesDocAgendaFirst(m, at) ==
    MinutesHeader \o MinutesDetails(m) \o MinutesObjectives(m) \o MinutesAgenda(m)
    \o MinutesAttendees(m) \o MinutesSection(m) \o MinutesApprovals(m) \o MinutesFooter(m, at)

MinutesDoc(m, at) ==
    MinutesHeader \o MinutesDetails(m) \o MinutesObjectives(m) \o MinutesAttendees(m)
    \o MinutesAgenda(m) \o MinutesSection(m) \o MinutesApprovals(m) \o MinutesFooter(m, at)

(***************************************************************************)
(* Member Performance report: GET /performance/:userId                     *)
(***************************************************************************)
\* User.findById(userId)
FindUserById(id) == SelectSeq(users, LAMBDA u : u.id = id)

\* the block counted anew from the stored meetings
PerformanceRecounted(user) ==
    [user.performance EXCEPT
        !.meetingsAttended = Cardinality({i \in 1..Len(meetings) :
                                \E j \in 1..Len(meetings[i].attendees) : meetings[i].attendees[j].user = user.id})]

\* const performance = user.performance || {}
PerformanceOf(user) == user.performance

\* value || 0
OrZero(n) == IF n = NoNumber THEN 0 ELSE n

\* rating.toFixed(1) of a rating in hundredths: the nearest tenth, a tie going up
\* (exact for the ratings whose binary fraction is exact: the multiples of 0.25)
RatingToFixed1(rating) == FormatTenths((rating + 5) \div 10)

PerformanceHeader ==
    <<Heading("Header", "SIT STUDENT COUNCIL"), Heading("Header", "PERFORMANCE REPORT")>>

MemberInformation(user) ==
    <<Heading("MemberInformation", "MEMBER INFORMATION"),
      Text("MemberInformation", "Name: " \o user.name),
      Text("MemberInformation", "Role: " \o user.role),
      Text("MemberInformation", "Student ID: " \o OrElse(Undefined, "N/A")),
      Text("MemberInformation", "Department: " \o OrElse(Undefined, "N/A")),
      Text("MemberInformation", "Join Date: " \o formatDate(JsDate(0, 1)))>>

PerformanceMetrics(performance) ==
    <<Heading("PerformanceMetrics", "PERFORMANCE METRICS"),
      Op("Row", "PerformanceMetrics", <<"Meetings Attended", ToString(OrZero(performance.meetingsAttended))>>),
      Op("Row", "PerformanceMetrics", <<"Tasks Completed", ToString(OrZero(performance.tasksCompleted))>>),
      Op("Row", "PerformanceMetrics", <<"Performance Rating", RatingToFixed1(OrZero(performance.rating)) \o "/5">>),
      Op("Row", "PerformanceMetrics", <<"Current Streak", ToString(OrZero(performance.streak))>>),
      Op("Row", "PerformanceMetrics", <<"Achievement Points", ToString(OrZero(performance.points))>>)>>

Achievements(performance) ==
    IF Len(performance.achievements) > 0
    THEN <<Heading("Achievements", "ACHIEVEMENTS")>> \o
         [i \in 1..Len(performance.achievements) |->
            Text("Achievements", ToString(i) \o ". " \o performance.achievements[i])]
    ELSE <<>>

\* months and scores: the same sample series for every user
TrendSeries == <<<<"Jan", "3.5">>, <<"Feb", "4.0">>, <<"Mar", "4.2">>, <<"Apr", "4.5">>,
                 <<"May", "4.8">>, <<"Jun", "4.9">>>>

PerformanceTrend ==
    <<PageBreak("PerformanceTrend"), Heading("PerformanceTrend", "PERFORMANCE TREND"),
      Text("PerformanceTrend", "Monthly Performance Overview:")>> \o
    [i \in 1..Len(TrendSeries) |-> Op("Bar", "PerformanceTrend", TrendSeries[i])]

PerformanceFooter(at) ==
    <<Op("Footer", "Footer", <<"Report Generated: " \o formatDate(at),
                               "SIT Student Council - Performance Management System">>)>>

PerformanceDoc(user, at) ==
    PerformanceHeader \o MemberInformation(user) \o PerformanceMetrics(PerformanceOf(user))
    \o Achievements(PerformanceOf(user)) \o PerformanceTrend \o PerformanceFooter(at)

Json(q, status) == [q EXCEPT !.pc = "done", !.status = status, !.body = "json"]

Months == {1, 2}

\* the handler up to its first await: the role check, then Meeting.find is issued
MonthlyRequest(r, caller, month) ==
    /\ r \in Slots
    /\ caller \in sessions
    /\ reqs[r].pc = "idle"
    /\ LET q == [reqs[r] EXCEPT !.route = "monthly", !.caller = caller, !.month = month]
       IN  reqs' = [reqs EXCEPT ![r] =
                IF caller.role # "Admin" /\ caller.role # "Secretary"
                THEN Json(q, 403)
                ELSE [q EXCEPT !.pc = "monthly_meetings", !.authorized = TRUE,
                               !.reads = <<"Meeting">>]]
    /\ UNCHANGED <<users, meetings, now, sessions, logo, faults>>

\* Meeting.find returns; User.find is issued
MonthlyMeetingsFound(r) ==
    /\ r \in Slots
    /\ reqs[r].pc = "monthly_meetings"
    /\ LET q == reqs[r]
       IN  reqs' = [reqs EXCEPT ![r] =
                [q EXCEPT !.pc = "monthly_users", !.reads = @ \o <<"User">>,
                          !.found = FindMeetings(JsDate(q.month - 1, 1), JsDate(q.month, 0))]]
    /\ UNCHANGED <<users, meetings, now, sessions, logo, faults>>

\* a handler that keeps the meetings it read in a variable of the module, where
\* the last read of any request overwrites it
MonthlyUsersFoundShared(r) ==
    /\ r \in Slots
    /\ reqs[r].pc = "monthly_users"
    /\ LET others == {o \in Slots \ {r} : reqs[o].route = "monthly" /\ reqs[o].pc \in {"monthly_users", "done"}}
           shared == IF others = {} THEN reqs[r].found ELSE reqs[CHOOSE o \in others : TRUE].found
       IN  reqs' = [reqs EXCEPT ![r] = MonthlyBuild([@ EXCEPT !.found = shared], FindUsers, now)]
    /\ UNCHANGED <<users, meetings, now, sessions, logo, faults>>

\* User.find returns; the document is built
MonthlyUsersFound(r) ==
    /\ r \in Slots
    /\ reqs[r].pc = "monthly_users"
    /\ reqs' = [reqs EXCEPT ![r] = MonthlyBuild(@, FindUsers, now)]
    /\ UNCHANGED <<users, meetings, now, sessions, logo, faults>>

MeetingIdChoices == {MeetingIds[i] : i \in 1..MaxMeetings} \cup {MissingId}

\* the handler up to its await: Meeting.findById with its populates is issued
MinutesRequest(r, caller, meetingId) ==
    /\ r \in Slots
    /\ caller \in sessions
    /\ reqs[r].pc = "idle"
    /\ reqs' = [reqs EXCEPT ![r] =
            [@ EXCEPT !.pc = "minutes_find", !.route = "minutes",
                      !.caller = caller, !.meetingId = meetingId,
                      !.reads = <<"Meeting", "User">>]]
    /\ UNCHANGED <<users, meetings, now, sessions, logo, faults>>

\* a handler that lets the attendees of the meeting pass as well
MinutesFoundForAttendees(r) ==
    /\ r \in Slots
    /\ reqs[r].pc = "minutes_find"
    /\ LET q == reqs[r]
           hit == FindMeetingById(q.meetingId)
       IN  reqs' = [reqs EXCEPT ![r] =
                IF hit = <<>> THEN Json(q, 404)
                ELSE IF /\ hit[1].createdBy # q.caller.id /\ q.caller.role # "Admin"
                        /\ \A i \in 1..Len(hit[1].attendees) : hit[1].attendees[i].user # q.caller.id
                     THEN Json(q, 403)
                     ELSE IF ~logo
                          THEN [Json(q, 500) EXCEPT !.found = <<hit[1]>>, !.piped = TRUE,
                                                    !.authorized = TRUE, !.builtAt = now]
                          ELSE [q EXCEPT !.pc = "done", !.found = <<hit[1]>>, !.piped = TRUE,
                                         !.authorized = TRUE, !.builtAt = now,
                                         !.doc = MinutesDoc(PopulateMeeting(hit[1]), now),
                                         !.ended = TRUE, !.status = 200, !.body = "pdf"]]
    /\ UNCHANGED <<users, meetings, now, sessions, logo, faults>>

\* findById returns: 404, the permission check, then the document is piped,
\* built and ended; doc.image throws when it cannot read the logo file, which is
\* the first drawing call after the pipe, and the catch answers 500
MinutesFound(r) ==
    /\ r \in Slots
    /\ reqs[r].pc = "minutes_find"
    /\ LET q == reqs[r]
           hit == FindMeetingById(q.meetingId)
       IN  reqs' = [reqs EXCEPT ![r] =
                IF hit = <<>> THEN Json(q, 404)
                ELSE IF hit[1].createdBy # q.caller.id /\ q.caller.role # "Admin"
                     THEN Json(q, 403)
                     ELSE IF ~logo
                          THEN [Json(q, 500) EXCEPT !.found = <<hit[1]>>, !.piped = TRUE,
                                                    !.authorized = TRUE, !.builtAt = now]
                          ELSE [q EXCEPT !.pc = "done", !.found = <<hit[1]>>, !.piped = TRUE,
                                         !.authorized = TRUE, !.builtAt = now,
                                         !.doc = MinutesDoc(PopulateMeeting(hit[1]), now),
                                         !.ended = TRUE, !.status = 200, !.body = "pdf"]]
    /\ UNCHANGED <<users, meetings, now, sessions, logo, faults>>

UserIdChoices == {"u1", "u2", GhostId}

\* the handler up to its await: the permission check, then User.findById is issued
PerformanceRequest(r, caller, userId) ==
    /\ r \in Slots
    /\ caller \in sessions
    /\ reqs[r].pc = "idle"
    /\ LET q == [reqs[r] EXCEPT !.route = "performance", !.caller = caller, !.userId = userId]
       IN  reqs' = [reqs EXCEPT ![r] =
                IF caller.id # userId /\ caller.role # "Admin"
                THEN Json(q, 403)
                ELSE [q EXCEPT !.pc = "performance_find", !.authorized = TRUE,
                               !.reads = <<"User">>]]
    /\ UNCHANGED <<users, meetings, now, sessions, logo, faults>>

\* findById returns: 404, or the document is built and ended
PerformanceFound(r) ==
    /\ r \in Slots
    /\ reqs[r].pc = "performance_find"
    /\ LET q == reqs[r]
           hit == FindUserById(q.userId)
       IN  reqs' = [reqs EXCEPT ![r] =
                IF hit = <<>> THEN Json(q, 404)
                ELSE [q EXCEPT !.pc = "done", !.piped = TRUE, !.builtAt = now,
                               !.doc = PerformanceDoc(hit[1], now),
                               !.ended = TRUE, !.status = 200, !.body = "pdf"]]
    /\ UNCHANGED <<users, meetings, now, sessions, logo, faults>>

\* a handler that waits for the read again after the rejection
CaughtAndRetried(q) == [q EXCEPT !.fault = TRUE]

\* catch (error): the rejection of an awaited read is logged and answered with 500
Caught(q) == [Json(q, 500) EXCEPT !.fault = TRUE]

\* the awaited Meeting.find is rejected
MonthlyMeetingsFailed(r) ==
    /\ r \in Slots
    /\ reqs[r].pc = "monthly_meetings"
    /\ faults > 0
    /\ faults' = faults - 1
    /\ reqs' = [reqs EXCEPT ![r] = Caught(@)]
    /\ UNCHANGED <<users, meetings, now, sessions, logo>>

\* the awaited User.find is rejected
MonthlyUsersFailed(r) ==
    /\ r \in Slots
    /\ reqs[r].pc = "monthly_users"
    /\ faults > 0
    /\ faults' = faults - 1
    /\ reqs' = [reqs EXCEPT ![r] = Caught(@)]
    /\ UNCHANGED <<users, meetings, now, sessions, logo>>

\* the awaited Meeting.findById with its populates is rejected
MinutesFindFailed(r) ==
    /\ r \in Slots
    /\ reqs[r].pc = "minutes_find"
    /\ faults > 0
    /\ faults' = faults - 1
    /\ reqs' = [reqs EXCEPT ![r] = Caught(@)]
    /\ UNCHANGED <<users, meetings, now, sessions, logo>>

\* the awaited User.findById is rejected
PerformanceFindFailed(r) ==
    /\ r \in Slots
    /\ reqs[r].pc = "performance_find"
    /\ faults > 0
    /\ faults' = faults - 1
    /\ reqs' = [reqs EXCEPT ![r] = Caught(@)]
    /\ UNCHANGED <<users, meetings, now, sessions, logo>>

\* a day passes
Tick ==
    /\ now < ReportTime
    /\ now' = now + 2
    /\ UNCHANGED <<users, meetings, reqs, sessions, logo, faults>>

\* the response is over; the slot takes the next request
Finish(r) ==
    /\ r \in Slots
    /\ reqs[r].pc = "done"
    /\ reqs' = [reqs EXCEPT ![r] = IdleReq]
    /\ UNCHANGED <<users, meetings, now, sessions, logo, faults>>

Next ==
    \/ \E r \in SlotIds :
        \/ \E caller \in Callers, month \in Months : MonthlyRequest(r, caller, month)
        \/ MonthlyMeetingsFound(r)
        \/ MonthlyUsersFound(r)
        \/ \E caller \in Callers, meetingId \in MeetingIdChoices : MinutesRequest(r, caller, meetingId)
        \/ MinutesFound(r)
        \/ \E caller \in Callers, userId \in UserIdChoices : PerformanceRequest(r, caller, userId)
        \/ PerformanceFound(r)
        \/ MonthlyMeetingsFailed(r)
        \/ MonthlyUsersFailed(r)
        \/ MinutesFindFailed(r)
        \/ PerformanceFindFailed(r)
        \/ Finish(r)
    \/ Tick

Spec == Init /\ [][Next]_vars

(***************************************************************************)
(* Properties.                                                             *)
(***************************************************************************)
\* the requests whose Monthly Activity build has run
MonthlyBuilt == {r \in Slots : reqs[r].pc = "done" /\ reqs[r].route = "monthly" /\ reqs[r].piped}

\* the requests whose Meeting Minutes build has run, the logo file being in reach
MinutesBuilt == {r \in Slots : reqs[r].pc = "done" /\ reqs[r].route = "minutes" /\ reqs[r].piped /\ logo}

Count(seq, v) == Cardinality({i \in 1..Len(seq) : seq[i] = v})

Range(seq) == {seq[i] : i \in 1..Len(seq)}

OpsOf(doc, kind, sec) == SelectSeq(doc, LAMBDA o : o.kind = kind /\ o.sec = sec)

\* the stored meeting a Meeting Minutes request reads
Requested(r) == CHOOSE m \in Range(meetings) : m.id = reqs[r].meetingId

\* the stored users that are not guests, in stored order
CouncilMembers == SelectSeq(users, LAMBDA u : u.role # "Guest")

\* C1: with no in-range meeting, every AttendanceStat and every drawn attendance
\* row carries the rate "0.0" (the quotient by zero meetings is never formed)
C1_ZeroMeetingsRate ==
    \A r \in MonthlyBuilt :
        Len(reqs[r].found) = 0 =>
            /\ \A i \in 1..Len(reqs[r].attendanceStats) : reqs[r].attendanceStats[i].attendanceRate = "0.0"
            /\ \A o \in Range(OpsOf(reqs[r].doc, "Row", "AttendanceStatistics")) : o.cells[5] = "0.0"

C1_Witness ==
    \E r \in MonthlyBuilt :
        /\ Len(reqs[r].found) = 0
        /\ Len(reqs[r].attendanceStats) > 0
        /\ Len(OpsOf(reqs[r].doc, "Row", "AttendanceStatistics")) > 0

\* the texts of the tenths from 0.0 to 100.0
RateTexts == {FormatTenths(t) : t \in 0..1000}

\* C2: every AttendanceStat has attended <= totalMeetings and a rate that reads
\* as a number of tenths between 0.0 and 100.0, also when an attendee list names
\* a user twice
C2_RateWithinBounds ==
    \A r \in MonthlyBuilt : \A i \in 1..Len(reqs[r].attendanceStats) :
        LET stat == reqs[r].attendanceStats[i]
        IN  /\ stat.attended <= stat.totalMeetings
            /\ stat.totalMeetings = Len(reqs[r].found)
            /\ stat.attendanceRate \in RateTexts

C2_Witness ==
    \E r \in MonthlyBuilt : \E k \in 1..Len(reqs[r].found) :
        /\ \E i, j \in 1..Len(reqs[r].found[k].attendees) :
              i # j /\ reqs[r].found[k].attendees[i].user = reqs[r].found[k].attendees[j].user
        /\ Len(reqs[r].attendanceStats) > 0

\* C3: attended is the number of in-range meetings with an attendee entry for
\* the user, whatever the entry's status, and the rate is attended / total * 100
\* to the nearest tenth (3 of 4 gives "75.0")
C3_AttendedAndRate ==
    /\ AttendanceRate(3, 4) = "75.0"
    /\ \A r \in MonthlyBuilt :
        /\ Len(reqs[r].attendanceStats) = Len(CouncilMembers)
        /\ \A i \in 1..Len(reqs[r].attendanceStats) :
            LET stat == reqs[r].attendanceStats[i]
                found == reqs[r].found
                with == {k \in 1..Len(found) :
                            \E j \in 1..Len(found[k].attendees) : found[k].attendees[j].user = CouncilMembers[i].id}
            IN  /\ stat.attended = Cardinality(with)
                /\ Len(found) > 0 =>
                      \E t \in 0..1000 :
                          /\ 2 * t * Len(found) - 2000 * Cardinality(with) \in (1 - Len(found))..Len(found)
                          /\ stat.attendanceRate = FormatTenths(t)

C3_Witness ==
    \E r \in MonthlyBuilt : \E i \in 1..Len(reqs[r].attendanceStats) :
        /\ reqs[r].attendanceStats[i].attendanceRate = "66.7"
        /\ \E k \in 1..Len(reqs[r].found) : \E j \in 1..Len(reqs[r].found[k].attendees) :
              /\ reqs[r].found[k].attendees[j].user = CouncilMembers[i].id
              /\ reqs[r].found[k].attendees[j].status = "absent"

\* C4: a collected action item is in the overdue group exactly when its deadline
\* is set, lies strictly before the time of the report, and its status is not
\* "completed"
C4_OverdueIff ==
    \A r \in MonthlyBuilt : \A it \in Range(reqs[r].allActionItems) :
        LET late == it.deadline # NoDate /\ it.deadline < reqs[r].builtAt /\ it.status # "completed"
        IN  Count(reqs[r].overdue, it) = IF late THEN Count(reqs[r].allActionItems, it) ELSE 0

C4_Witness ==
    \E r \in MonthlyBuilt :
        /\ \E it \in Range(reqs[r].allActionItems) :
              it.status = "completed" /\ it.deadline # NoDate /\ it.deadline < reqs[r].builtAt
        /\ \E it \in Range(reqs[r].overdue) : it.status = "pending"

C6_OverdueRecomputed ==
    \A r \in MonthlyBuilt :
        LET all == reqs[r].allActionItems
            at == reqs[r].builtAt
            passed == {i \in 1..Len(all) : all[i].deadline # NoDate /\ all[i].deadline < at
                                           /\ all[i].status # "completed"}
        IN  /\ \A it \in Range(all) :
                /\ (it.status = "overdue" /\ (it.deadline = NoDate \/ it.deadline >= at))
                      => Count(reqs[r].overdue, it) = 0
                /\ (it.status \in {"pending", "in-progress"} /\ it.deadline # NoDate /\ it.deadline < at)
                      => Count(reqs[r].overdue, it) = Count(all, it)
            /\ Len(all) > 0 =>
                  Text("ActionItemsSummary", "Overdue: " \o ToString(Cardinality(passed)))
                      \in Range(reqs[r].doc)

C6_Witness ==
    \E r \in MonthlyBuilt :
        /\ \E it \in Range(reqs[r].allActionItems) :
              it.status = "overdue" /\ it.deadline = NoDate /\ Count(reqs[r].overdue, it) = 0
        /\ \E it \in Range(reqs[r].overdue) : it.status = "in-progress"

\* the attendee line the report shows for a stored attendee entry
ShownAttendee(attendee, i) ==
    LET named == {u \in Range(users) : u.id = attendee.user}
        who == IF named = {} THEN "Unknown - Member"
               ELSE LET u == CHOOSE u \in named : TRUE IN u.name \o " - " \o u.role
    IN  ToString(i) \o ". " \o who

\* C7: the Meeting Minutes document has one Attendees entry per stored attendee
\* and one action-items row per stored action item, each in stored order
C7_OneEntryPerElement ==
    \A r \in MinutesBuilt :
        LET m == Requested(r)
            entries == OpsOf(reqs[r].doc, "Entry", "Attendees")
            rows == OpsOf(reqs[r].doc, "Row", "Minutes")
        IN  /\ Len(entries) = Len(m.attendees)
            /\ \A i \in 1..Len(entries) : entries[i].cells[1] = ShownAttendee(m.attendees[i], i)
            /\ Len(rows) = Len(m.minutes.actionItems)
            /\ \A i \in 1..Len(rows) :
                  /\ LET task == m.minutes.actionItems[i].task
                         shown == IF Len(task) < TaskCellMax THEN Len(task) ELSE TaskCellMax
                     IN  SubSeq(rows[i].cells[1], 1, shown) = SubSeq(task, 1, shown)
                  /\ rows[i].cells[3] = formatDate(m.minutes.actionItems[i].deadline)

C7_Witness ==
    \E r \in MinutesBuilt :
        LET entries == OpsOf(reqs[r].doc, "Entry", "Attendees")
            rows == OpsOf(reqs[r].doc, "Row", "Minutes")
        IN  /\ Len(entries) = 3
            /\ Len(rows) = 2
            /\ rows[1] # rows[2]

\* C8 as claimed: a row whose item is past its deadline and not completed is
\* flagged overdue
C8_RowFlaggedOverdue ==
    \A r \in MinutesBuilt :
        LET items == Requested(r).minutes.actionItems
            rows == OpsOf(reqs[r].doc, "Row", "Minutes")
        IN  \A i \in 1..Len(rows) :
                (items[i].deadline # NoDate /\ items[i].deadline < reqs[r].builtAt /\ items[i].status # "completed")
                    => rows[i].cells[4] = "Overdue"

\* C8 amended: the status cell of a row is the stored status of its item with
\* its first letter in upper case, whatever the deadline: the row of an item
\* stored as "pending" reads "Pending" also after its deadline
C8_RowShowsStoredStatus ==
    \A r \in MinutesBuilt :
        LET items == Requested(r).minutes.actionItems
            rows == OpsOf(reqs[r].doc, "Row", "Minutes")
        IN  /\ Len(rows) = Len(items)
            /\ \A i \in 1..Len(rows) :
                  /\ items[i].status = "pending" => rows[i].cells[4] = "Pending"
                  /\ items[i].status = "in-progress" => rows[i].cells[4] = "In-progress"
                  /\ items[i].status = "completed" => rows[i].cells[4] = "Completed"
                  /\ items[i].status = "overdue" => rows[i].cells[4] = "Overdue"

C8_Witness ==
    \E r \in MinutesBuilt :
        LET items == Requested(r).minutes.actionItems
            rows == OpsOf(reqs[r].doc, "Row", "Minutes")
        IN  \E i \in 1..Len(rows) :
                /\ items[i].status = "pending"
                /\ items[i].deadline # NoDate /\ items[i].deadline < reqs[r].builtAt
                /\ rows[i].cells[4] = "Pending"

\* C9 as claimed: the action-items table header is in every Meeting Minutes document
C9_HeaderAlways ==
    \A r \in MinutesBuilt : ActionItemsTableHeader \in Range(reqs[r].doc)

\* C9 amended: the action-items table (its label, its header row and its rows)
\* is in the document exactly when the meeting has an action item; with no
\* action item the document has no table, with one it has the header row once,
\* right before the first row
C9_TableIffItems ==
    \A r \in MinutesBuilt :
        LET items == Requested(r).minutes.actionItems
            doc == reqs[r].doc
            headers == {k \in 1..Len(doc) : doc[k].kind = "TableHeader"}
        IN  IF Len(items) = 0
            THEN /\ headers = {}
                 /\ OpsOf(doc, "Row", "Minutes") = <<>>
                 /\ Text("Minutes", "Action Items:") \notin Range(doc)
            ELSE /\ Cardinality(headers) = 1
                 /\ \A k \in headers :
                       /\ doc[k].cells = <<"Task", "Assignee", "Deadline", "Status">>
                       /\ doc[k - 1] = Text("Minutes", "Action Items:")
                       /\ doc[k + 1].kind = "Row"

C9_Witness ==
    \E r \in MinutesBuilt :
        /\ Len(Requested(r).minutes.actionItems) = 0
        /\ reqs[r].ended
        /\ ActionItemsTableHeader \notin Range(reqs[r].doc)

\* C10 as claimed: with no in-range meeting the summary reads "Total Meetings: 0"
\* and the attendance table has its header row and no body row
C10_ZeroMeetingsNoRows ==
    \A r \in MonthlyBuilt :
        Len(reqs[r].found) = 0 =>
            /\ Text("ExecutiveSummary", "Total Meetings: 0") \in Range(reqs[r].doc)
            /\ AttendanceTableHeader \in Range(reqs[r].doc)
            /\ OpsOf(reqs[r].doc, "Row", "AttendanceStatistics") = <<>>

\* C10 amended: with no in-range meeting the summary reads "Total Meetings: 0"
\* and the attendance table has its header row and one body row per stored user
\* who is not a guest, each with total 0, attended 0 and rate 0.0
C10_ZeroMeetingsRowPerMember ==
    \A r \in MonthlyBuilt :
        Len(reqs[r].found) = 0 =>
            LET rows == OpsOf(reqs[r].doc, "Row", "AttendanceStatistics")
            IN  /\ Text("ExecutiveSummary", "Total Meetings: 0") \in Range(reqs[r].doc)
                /\ Count(reqs[r].doc, AttendanceTableHeader) = 1
                /\ Len(rows) = Len(CouncilMembers)
                /\ \A i \in 1..Len(rows) :
                      rows[i].cells = <<CouncilMembers[i].name, CouncilMembers[i].role, "0", "0", "0.0">>

C10_Witness ==
    \E r \in MonthlyBuilt :
        /\ Len(reqs[r].found) = 0
        /\ Text("ExecutiveSummary", "Total Meetings: 0") \in Range(reqs[r].doc)
        /\ Len(OpsOf(reqs[r].doc, "Row", "AttendanceStatistics")) = Len(CouncilMembers)
        /\ Len(CouncilMembers) > 0

\* a request whose document build has run
Built(q) == q.pc = "done" /\ q.piped

\* two requests for the same report by the same caller
SameRequest(a, b) ==
    /\ a.route = b.route /\ a.caller = b.caller
    /\ a.meetingId = b.meetingId /\ a.userId = b.userId /\ a.month = b.month

\* the operations of a document at the positions that satisfy Keep(doc, i)
Keeping(doc, Keep(_, _)) ==
    LET at == SelectSeq([i \in 1..Len(doc) |-> i], LAMBDA i : Keep(doc, i))
    IN  [k \in 1..Len(at) |-> doc[at[k]]]

NotFooter(doc, i) == doc[i].kind # "Footer"

\* in the Action Items Summary the page break, the heading, the total and the
\* line of the stored statuses come first; what follows is the overdue count
\* and the overdue list
NotFooterNorOverdue(doc, i) ==
    /\ doc[i].kind # "Footer"
    /\ doc[i].sec = "ActionItemsSummary" =>
          Cardinality({j \in 1..i : doc[j].sec = "ActionItemsSummary"}) <= 4

\* C11 as claimed: two builds of the same report over the same records are the
\* same document but for the footer, whenever they are built
C11_SameButFooter ==
    \A r1, r2 \in Slots :
        (Built(reqs[r1]) /\ Built(reqs[r2]) /\ SameRequest(reqs[r1], reqs[r2]))
            => Keeping(reqs[r1].doc, NotFooter) = Keeping(reqs[r2].doc, NotFooter)

\* C11 amended: two builds of the same report over the same records are the same
\* document but for the footer and, in the Monthly Activity report, the overdue
\* count and the overdue list, which follow the time of the build; two builds
\* at the same time are the same document
C11_SameButFooterAndOverdue ==
    \A r1, r2 \in Slots :
        (Built(reqs[r1]) /\ Built(reqs[r2]) /\ SameRequest(reqs[r1], reqs[r2]))
            => /\ Keeping(reqs[r1].doc, NotFooterNorOverdue) = Keeping(reqs[r2].doc, NotFooterNorOverdue)
               /\ reqs[r1].route # "monthly" =>
                     Keeping(reqs[r1].doc, NotFooter) = Keeping(reqs[r2].doc, NotFooter)
               /\ reqs[r1].builtAt = reqs[r2].builtAt => reqs[r1].doc = reqs[r2].doc

C11_Witness ==
    \E r1, r2 \in Slots :
        /\ r1 # r2 /\ Built(reqs[r1]) /\ Built(reqs[r2]) /\ SameRequest(reqs[r1], reqs[r2])
        /\ reqs[r1].route = "monthly"
        /\ reqs[r1].builtAt < reqs[r2].builtAt
        /\ Len(reqs[r1].overdue) < Len(reqs[r2].overdue)
        /\ Keeping(reqs[r1].doc, NotFooter) # Keeping(reqs[r2].doc, NotFooter)

\* the request has ended with the JSON failure of that status and no document
FailedWith(q, status) ==
    /\ q.status = status /\ q.body = "json"
    /\ ~q.piped /\ ~q.ended /\ q.doc = <<>>

\* C12: a Meeting Minutes request for an id no stored meeting has, and a Member
\* Performance request that passed the access check for an id no stored user has,
\* end with the 404 failure once the read has returned; no request for a missing
\* meeting or user starts a document
C12_MissingEntityNotFound ==
    \A r \in Slots :
        LET q == reqs[r]
        IN  (q.pc = "done" /\ ~q.fault) =>
              /\ (q.route = "minutes" /\ \A i \in 1..Len(meetings) : meetings[i].id # q.meetingId)
                    => FailedWith(q, 404)
              /\ (q.route = "performance" /\ \A i \in 1..Len(users) : users[i].id # q.userId)
                    => /\ ~q.piped /\ q.doc = <<>> /\ q.body = "json"
                       /\ (q.caller.id = q.userId \/ q.caller.role = "Admin") => FailedWith(q, 404)

C12_Witness ==
    \E r1, r2 \in Slots :
        /\ reqs[r1].pc = "done" /\ reqs[r1].route = "minutes" /\ reqs[r1].meetingId = MissingId
        /\ FailedWith(reqs[r1], 404)
        /\ reqs[r2].pc = "done" /\ reqs[r2].route = "performance" /\ reqs[r2].userId = GhostId
        /\ FailedWith(reqs[r2], 404)

\* no stored user has that id: the reference is unset or names a removed user
Unresolved(ref) == \A i \in 1..Len(users) : users[i].id # ref

\* C13: a Meeting Minutes build whose meeting has unresolvable references is
\* completed, with "Not specified" for the chairperson and the minutes taker,
\* "Unknown" for an attendee's user and "Unassigned" for an assignee
C13_PlaceholdersForUnresolved ==
    \A r \in MinutesBuilt :
        LET m == Requested(r)
            doc == reqs[r].doc
            entries == OpsOf(doc, "Entry", "Attendees")
            rows == OpsOf(doc, "Row", "Minutes")
        IN  /\ reqs[r].ended /\ reqs[r].status = 200 /\ reqs[r].body = "pdf"
            /\ Unresolved(m.chairperson) => Text("Details", "Chairperson: Not specified") \in Range(doc)
            /\ Unresolved(m.minutesTaker) => Text("Details", "Minutes Taker: Not specified") \in Range(doc)
            /\ \A i \in 1..Len(m.attendees) :
                  Unresolved(m.attendees[i].user) => entries[i].cells[1] = ToString(i) \o ". Unknown - Member"
            /\ \A i \in 1..Len(m.minutes.actionItems) :
                  Unresolved(m.minutes.actionItems[i].assignee) => rows[i].cells[2] = "Unassigned"

C13_Witness ==
    \E r \in MinutesBuilt :
        LET m == Requested(r)
        IN  /\ m.chairperson = GhostId /\ m.minutesTaker = GhostId
            /\ m.attendees[1].user = GhostId
            /\ m.minutes.actionItems[1].assignee = GhostId
            /\ reqs[r].ended
            /\ OpsOf(reqs[r].doc, "Row", "Minutes")[1].cells[2] = "Unassigned"

\* the requests whose Meeting.find has returned
MonthlyRead == {r \in Slots : reqs[r].route = "monthly" /\ reqs[r].pc \in {"monthly_users", "done"}
                              /\ reqs[r].caller.role \in {"Admin", "Secretary"}}

\* C14: the meetings a Monthly Activity request reads are exactly the stored
\* meetings dated within the calendar month asked for, whatever the time of day
C14_CoversCalendarMonth ==
    \A r \in MonthlyRead :
        {reqs[r].found[i].id : i \in 1..Len(reqs[r].found)}
            = {meetings[i].id : i \in {j \in 1..Len(meetings) : MonthOf(meetings[j].date) = reqs[r].month}}

\* C15: the Attendance Statistics hold one AttendanceStat and one drawn row for
\* each stored user whose role is not Guest, none for a Guest, and the summary
\* line "Total Council Members" shows the number of rows
C15_RowPerCouncilMember ==
    \A r \in MonthlyBuilt :
        LET stats == reqs[r].attendanceStats
            rows == OpsOf(reqs[r].doc, "Row", "AttendanceStatistics")
        IN  /\ \A i \in 1..Len(users) :
                  Cardinality({k \in 1..Len(stats) : stats[k].name = users[i].name /\ stats[k].role = users[i].role})
                      = IF users[i].role = "Guest" THEN 0 ELSE 1
            /\ Len(stats) = Cardinality({i \in 1..Len(users) : users[i].role # "Guest"})
            /\ \A k \in 1..Len(stats) : stats[k].role # "Guest"
            /\ Len(rows) = Len(stats)
            /\ \A k \in 1..Len(rows) : rows[k].cells[1] = stats[k].name /\ rows[k].cells[2] = stats[k].role
            /\ Text("ExecutiveSummary", "Total Council Members: " \o ToString(Len(rows))) \in Range(reqs[r].doc)

C15_Witness ==
    \E r \in MonthlyBuilt :
        /\ Cardinality({i \in 1..Len(users) : users[i].role = "Guest"}) = 2
        /\ Len(OpsOf(reqs[r].doc, "Row", "AttendanceStatistics")) = 3
        /\ users[1].role = "Guest"

RECURSIVE ItemsBefore(_, _)
\* the number of action items of the first n meetings read
ItemsBefore(found, n) ==
    IF n = 0 THEN 0 ELSE ItemsBefore(found, n - 1) + Len(found[n].minutes.actionItems)

\* C16: the collected list holds each action item of each meeting read once: its
\* length is the sum of the meetings' action-item counts, the meetings come in
\* date order and their items in stored order, and every entry carries the title
\* of its meeting
C16_FlattenedInOrder ==
    \A r \in MonthlyBuilt :
        LET found == reqs[r].found
            all == reqs[r].allActionItems
        IN  /\ \A i, j \in 1..Len(found) : i < j => found[i].date <= found[j].date
            /\ Len(all) = ItemsBefore(found, Len(found))
            /\ \A i \in 1..Len(found) : \A j \in 1..Len(found[i].minutes.actionItems) :
                  LET item == found[i].minutes.actionItems[j]
                      entry == all[ItemsBefore(found, i - 1) + j]
                  IN  /\ entry.task = item.task /\ entry.deadline = item.deadline
                      /\ entry.status = item.status
                      /\ entry.meeting = found[i].title

C16_Witness ==
    \E r \in MonthlyBuilt :
        LET all == reqs[r].allActionItems
        IN  /\ Len(all) = 2 /\ Len(reqs[r].found) >= 2
            /\ all[1].meeting = "Meeting 2" /\ all[2].meeting = "Meeting 1"
            /\ all[1].status # all[2].status

\* C17: a task cell of the Meeting Minutes action-items table shows a task of
\* more than 50 characters as its first 50 characters followed by "...", and a
\* task of 50 characters or fewer as it is; the Monthly Activity overdue list
\* shows every task in full
C17_TaskCellTruncated ==
    /\ \A r \in MinutesBuilt :
          LET items == Requested(r).minutes.actionItems
              rows == OpsOf(reqs[r].doc, "Row", "Minutes")
          IN  \A i \in 1..Len(items) :
                  LET task == items[i].task
                      cell == rows[i].cells[1]
                  IN  IF Len(task) > 50
                      THEN Len(cell) = 53 /\ SubSeq(cell, 1, 50) = SubSeq(task, 1, 50)
                           /\ SubSeq(cell, 51, 53) = "..."
                      ELSE cell = task
    /\ \A r \in MonthlyBuilt :
          \A i \in 1..Len(reqs[r].found) : \A j \in 1..Len(reqs[r].found[i].minutes.actionItems) :
              LET item == reqs[r].found[i].minutes.actionItems[j]
              IN  (item.deadline # NoDate /\ item.deadline < reqs[r].builtAt /\ item.status # "completed")
                      => \E k \in 1..Len(reqs[r].overdue) :
                            Text("ActionItemsSummary", ToString(k) \o ". " \o item.task) \in Range(reqs[r].doc)

C17_Witness ==
    \E r \in MinutesBuilt :
        /\ Len(Requested(r).minutes.actionItems) = 1
        /\ Requested(r).minutes.actionItems[1].task = "Send the invitations for the spring fair to alumni."
        /\ OpsOf(reqs[r].doc, "Row", "Minutes")[1].cells[1]
              = "Send the invitations for the spring fair to alumni..."

\* the positions of a document where a section starts
SectionStarts(doc) == {k \in 1..Len(doc) : k = 1 \/ doc[k - 1].sec # doc[k].sec}

\* the page breaks of a document are the first operations of its sections
\* among pageSections, one each, and there is no other page break
BreaksBefore(doc, pageSections) ==
    /\ \A k \in 1..Len(doc) :
          doc[k].kind = "PageBreak" <=> (k \in SectionStarts(doc) /\ doc[k].sec \in pageSections)
    /\ \A k \in 1..Len(doc) :
          doc[k].kind = "PageBreak" => (k < Len(doc) /\ doc[k + 1].kind = "Heading" /\ doc[k + 1].sec = doc[k].sec)

\* C18: a Meeting Minutes document starts a page right before each of its
\* Attendees, Agenda, Minutes, Next Meeting and Approvals sections and nowhere
\* else; a Monthly Activity document right before each of Attendance
\* Statistics, Action Items Summary and Recommendations and nowhere else
C18_PageBreaksBeforeSections ==
    /\ \A r \in MinutesBuilt :
          BreaksBefore(reqs[r].doc, {"Attendees", "Agenda", "Minutes", "NextMeeting", "Approvals"})
    /\ \A r \in MonthlyBuilt :
          BreaksBefore(reqs[r].doc, {"AttendanceStatistics", "ActionItemsSummary", "Recommendations"})

C18_Witness ==
    \E r1 \in MinutesBuilt, r2 \in MonthlyBuilt :
        /\ Cardinality({k \in 1..Len(reqs[r1].doc) : reqs[r1].doc[k].kind = "PageBreak"}) = 5
        /\ Cardinality({k \in 1..Len(reqs[r2].doc) : reqs[r2].doc[k].kind = "PageBreak"}) = 3

\* the sections of a document in the order in which they start
SectionsOf(doc) ==
    LET starts == SelectSeq([k \in 1..Len(doc) |-> k], LAMBDA k : k \in SectionStarts(doc))
    IN  [i \in 1..Len(starts) |-> doc[starts[i]].sec]

\* the position of an operation in a document, 0 when it is not there
PositionOf(doc, op) ==
    IF \E k \in 1..Len(doc) : doc[k] = op THEN CHOOSE k \in 1..Len(doc) : doc[k] = op ELSE 0

\* C19: a Meeting Minutes document has its sections in the order Header, Meeting
\* Details, Objectives (when the meeting has an objective), Attendees, Agenda
\* Items (when the agenda is not empty), Minutes with Summary, Decisions,
\* action-items table and Next Meeting in that order, Approvals, Footer, each once
C19_MinutesSectionOrder ==
    \A r \in MinutesBuilt :
        LET m == Requested(r)
            doc == reqs[r].doc
            summary == PositionOf(doc, Text("Minutes", "Summary:"))
            decisions == PositionOf(doc, Text("Minutes", "Decisions Made:"))
            table == PositionOf(doc, Text("Minutes", "Action Items:"))
            next == PositionOf(doc, Heading("NextMeeting", "NEXT MEETING"))
        IN  /\ SectionsOf(doc) =
                  <<"Header", "Details">>
                  \o (IF m.objective \in {Undefined, ""} THEN <<>> ELSE <<"Objectives">>)
                  \o <<"Attendees">>
                  \o (IF Len(m.agenda) = 0 THEN <<>> ELSE <<"Agenda">>)
                  \o <<"Minutes", "NextMeeting", "Approvals", "Footer">>
            /\ (summary > 0) <=> (m.minutes.summary \notin {Undefined, ""})
            /\ (decisions > 0) <=> (Len(m.minutes.decisions) > 0)
            /\ (table > 0) <=> (Len(m.minutes.actionItems) > 0)
            /\ next > 0
            /\ (summary > 0 /\ decisions > 0) => summary < decisions
            /\ (summary > 0 /\ table > 0) => summary < table
            /\ (decisions > 0 /\ table > 0) => decisions < table
            /\ summary < next /\ decisions < next /\ table < next
            /\ doc[Len(doc)].kind = "Footer"

C19_Witness ==
    \E r \in MinutesBuilt :
        LET doc == reqs[r].doc
        IN  /\ SectionsOf(doc) = <<"Header", "Details", "Objectives", "Attendees", "Agenda",
                                   "Minutes", "NextMeeting", "Approvals", "Footer">>
            /\ Text("Minutes", "Summary:") \in Range(doc)
            /\ Text("Minutes", "Decisions Made:") \in Range(doc)
            /\ Text("Minutes", "Action Items:") \in Range(doc)
            /\ Text("NextMeeting", "Proposed Agenda:") \in Range(doc)

\* C20: a Monthly Activity build whose reads succeeded runs to its end and emits
\* Header, Executive Summary, Meetings Summary, Attendance Statistics, Action
\* Items Summary, Recommendations and Footer in that order, with the
\* recommendation lines of the meeting, completed-item and overdue-item counts
C20_MonthlyRunsToCompletion ==
    \A r \in MonthlyBuilt :
        LET q == reqs[r]
            doc == q.doc
        IN  /\ q.ended /\ q.status = 200 /\ q.body = "pdf"
            /\ SectionsOf(doc) =
                  <<"Header", "ExecutiveSummary">>
                  \o (IF Len(q.found) = 0 THEN <<>> ELSE <<"MeetingsSummary">>)
                  \o <<"AttendanceStatistics", "ActionItemsSummary", "Recommendations", "Footer">>
            /\ Text("Recommendations", "Successfully conducted " \o ToString(Len(q.found)) \o " meetings")
                  \in Range(doc)
            /\ Text("Recommendations", ToString(Len(q.completed)) \o " action items completed") \in Range(doc)
            /\ Text("Recommendations", IF Len(q.overdue) > 0
                                       THEN "Address " \o ToString(Len(q.overdue)) \o " overdue action items"
                                       ELSE "All action items are on track") \in Range(doc)

\* the requests whose Member Performance build has run
PerformanceBuilt == {r \in Slots : reqs[r].pc = "done" /\ reqs[r].route = "performance" /\ reqs[r].piped}

\* the stored user a Member Performance request reads
Subject(r) == CHOOSE u \in Range(users) : u.id = reqs[r].userId

\* the value cell of the metrics row with that label
MetricCell(doc, label) ==
    LET rows == SelectSeq(OpsOf(doc, "Row", "PerformanceMetrics"), LAMBDA o : o.cells[1] = label)
    IN  IF Len(rows) = 1 THEN rows[1].cells[2] ELSE "<none>"

\* the number of stored meetings with an attendee entry for the user
MeetingsWith(user) ==
    Cardinality({i \in 1..Len(meetings) :
        \E j \in 1..Len(meetings[i].attendees) : meetings[i].attendees[j].user = user.id})

\* the counts are shown as stored, a count that is not set as 0, whatever the
\* meeting records say, and the trend is the same six bars in every document
CountsAndTrendAsStored(r) ==
    LET doc == reqs[r].doc
        stored == Subject(r).performance
        shown(n) == IF n = NoNumber THEN "0" ELSE ToString(n)
    IN  /\ MetricCell(doc, "Meetings Attended") = shown(stored.meetingsAttended)
        /\ MetricCell(doc, "Tasks Completed") = shown(stored.tasksCompleted)
        /\ MetricCell(doc, "Current Streak") = shown(stored.streak)
        /\ MetricCell(doc, "Achievement Points") = shown(stored.points)
        /\ Len(OpsOf(doc, "Row", "PerformanceMetrics")) = 5
        /\ [i \in 1..Len(OpsOf(doc, "Bar", "PerformanceTrend")) |-> OpsOf(doc, "Bar", "PerformanceTrend")[i].cells]
              = <<<<"Jan", "3.5">>, <<"Feb", "4.0">>, <<"Mar", "4.2">>, <<"Apr", "4.5">>,
                  <<"May", "4.8">>, <<"Jun", "4.9">>>>

\* C21 as claimed: the Member Performance report shows every stored Performance
\* value unchanged, the rating too (a value that is not set as 0), and the same
\* six-point trend for every user
C21_StoredValuesUnchanged ==
    \A r \in PerformanceBuilt :
        LET rating == Subject(r).performance.rating
        IN  /\ CountsAndTrendAsStored(r)
            /\ \E t \in 0..50 :
                  /\ 10 * t = (IF rating = NoNumber THEN 0 ELSE rating)
                  /\ MetricCell(reqs[r].doc, "Performance Rating") = FormatTenths(t) \o "/5"

\* C21 amended: the report shows the stored meetingsAttended, tasksCompleted,
\* streak and points unchanged (0 when not set), never counted from the meeting
\* records; the rating is shown rounded to the nearest tenth, with one decimal
\* and "/5" ("0.0/5" when not set), so a stored 4.25 reads "4.3/5"; the trend is
\* the same six-point series for every user
C21_StoredCountsRoundedRating ==
    \A r \in PerformanceBuilt :
        LET rating == Subject(r).performance.rating
            cell == MetricCell(reqs[r].doc, "Performance Rating")
        IN  /\ CountsAndTrendAsStored(r)
            /\ reqs[r].ended /\ reqs[r].status = 200
            /\ rating = NoNumber => cell = "0.0/5"
            /\ rating # NoNumber =>
                  \E t \in 0..50 :
                      /\ cell = FormatTenths(t) \o "/5"
                      /\ 10 * t - rating \in (0 - 4)..5

C21_Witness ==
    \E r \in PerformanceBuilt :
        LET stored == Subject(r).performance
        IN  /\ stored.rating = 425
            /\ MetricCell(reqs[r].doc, "Performance Rating") = "4.3/5"
            /\ stored.meetingsAttended = 1
            /\ MeetingsWith(Subject(r)) = 2
            /\ MetricCell(reqs[r].doc, "Meetings Attended") = "1"

\* two requests for the same report, whoever asks
SameReport(a, b) ==
    /\ a.route = b.route
    /\ a.meetingId = b.meetingId /\ a.userId = b.userId /\ a.month = b.month

\* every operation but the "Generated By" line of the Executive Summary
NotGeneratedBy(doc, i) ==
    ~(/\ doc[i].kind = "Text" /\ doc[i].sec = "ExecutiveSummary"
      /\ Len(doc[i].cells[1]) >= 14
      /\ SubSeq(doc[i].cells[1], 1, 14) = "Generated By: ")

\* every operation but the footer, the "Generated By" line and the overdue part
NotCallerNorTime(doc, i) == NotGeneratedBy(doc, i) /\ NotFooterNorOverdue(doc, i)

\* C22: two builds of the same report over the same records at the same time
\* for two callers are the same document when the report is Meeting Minutes or
\* Member Performance, and the same but for the "Generated By" line when it is
\* Monthly Activity, where that line names the caller; builds at different
\* times differ in nothing else than that line and what follows the clock
C22_CallerOnlyInGeneratedBy ==
    \A r1, r2 \in Slots :
        (Built(reqs[r1]) /\ Built(reqs[r2]) /\ SameReport(reqs[r1], reqs[r2])) =>
            LET a == reqs[r1]
                b == reqs[r2]
            IN  /\ Keeping(a.doc, NotCallerNorTime) = Keeping(b.doc, NotCallerNorTime)
                /\ a.builtAt = b.builtAt =>
                      /\ a.route \in {"minutes", "performance"} => a.doc = b.doc
                      /\ a.route = "monthly" =>
                            /\ Keeping(a.doc, NotGeneratedBy) = Keeping(b.doc, NotGeneratedBy)
                            /\ Len(a.doc) = Len(b.doc)
                            /\ Text("ExecutiveSummary", "Generated By: " \o a.caller.name
                                        \o " (" \o a.caller.role \o ")") \in Range(a.doc)

C22_Witness ==
    \E r1, r2 \in Slots :
        LET a == reqs[r1]
            b == reqs[r2]
        IN  /\ r1 # r2 /\ Built(a) /\ Built(b) /\ SameReport(a, b)
            /\ a.caller # b.caller /\ a.builtAt = b.builtAt
            /\ a.route = "monthly" /\ a.doc # b.doc
            /\ Keeping(a.doc, NotGeneratedBy) = Keeping(b.doc, NotGeneratedBy)

\* the creator of a meeting and an Admin have read its Meeting Minutes
C22_WitnessMinutes ==
    \E r1, r2 \in Slots :
        LET a == reqs[r1]
            b == reqs[r2]
        IN  /\ r1 # r2 /\ Built(a) /\ Built(b) /\ SameReport(a, b)
            /\ a.route = "minutes" /\ a.caller.role = "Admin" /\ b.caller.role # "Admin"
            /\ a.ended /\ a.doc = b.doc /\ Len(a.doc) > 20

\* two callers have read the same Member Performance report
C22_WitnessPerformance ==
    \E r1, r2 \in Slots :
        /\ r1 # r2 /\ Built(reqs[r1]) /\ Built(reqs[r2]) /\ SameReport(reqs[r1], reqs[r2])
        /\ reqs[r1].route = "performance" /\ reqs[r1].caller # reqs[r2].caller

\* C23: in each of the three report requests no record of the scope has been
\* read, and no 404 that tells whether the scope exists has been sent, unless
\* the permission check has let the caller pass
C23_AuthorizedBeforeRead ==
    \A r \in Slots :
        LET q == reqs[r]
        IN  /\ q.reads # <<>> => q.authorized
            /\ (q.pc = "done" /\ q.status = 404) => q.authorized
            /\ q.piped => q.authorized

\* the same for the Member Performance and Monthly Activity requests alone
C23_AuthorizedBeforeReadElsewhere ==
    \A r \in Slots :
        LET q == reqs[r]
        IN  q.route \in {"performance", "monthly"} =>
              /\ q.reads # <<>> => q.authorized
              /\ (q.pc = "done" /\ q.status = 404) => q.authorized
              /\ q.piped => q.authorized

\* the document of a Meeting Minutes request is started after the check only
C23_MinutesBuildAfterCheck ==
    \A r \in Slots :
        (reqs[r].route = "minutes" /\ reqs[r].piped) =>
            /\ reqs[r].authorized
            /\ Requested(r).createdBy = reqs[r].caller.id \/ reqs[r].caller.role = "Admin"

\* the states of a handler in which it awaits a store read
Awaiting == {"monthly_meetings", "monthly_users", "minutes_find", "performance_find"}

\* C24: a step in which a store read is rejected ends the request that awaited
\* it with the 500 failure, no document started and no further read issued, and
\* changes no other request; a request so ended takes no further step but to
\* leave its slot: the read is not retried and no build step runs
C24_ReadFailureIsFatal ==
    [][\A r \in Slots :
          LET q == reqs[r]
              after == reqs'[r]
          IN  /\ (faults' < faults /\ after # q) =>
                    /\ q.pc \in Awaiting
                    /\ after = [q EXCEPT !.pc = "done", !.status = 500, !.body = "json", !.fault = TRUE]
                    /\ FailedWith(after, 500) /\ after.reads = q.reads
                    /\ \A o \in Slots \ {r} : reqs'[o] = reqs[o]
              /\ faults' < faults => \E o \in Slots : reqs'[o] # reqs[o]
              /\ q.fault => (after = q \/ after = IdleReq)
              /\ after.fault => (after.pc = "done" /\ FailedWith(after, 500))
              /\ (users' = users /\ meetings' = meetings)]_vars

C24_Witness ==
    \E r1, r2 \in Slots :
        /\ reqs[r1].fault /\ reqs[r1].route = "monthly" /\ reqs[r1].reads = <<"Meeting", "User">>
        /\ FailedWith(reqs[r1], 500)
        /\ reqs[r2].route = "minutes" /\ reqs[r2].pc = "done" /\ reqs[r2].ended /\ reqs[r2].status = 200
        /\ reqs[r2].doc = MinutesDoc(PopulateMeeting(Requested(r2)), reqs[r2].builtAt)

\* the document the request builds from the store and its own parameters alone
DocAlone(r) ==
    LET q == reqs[r]
    IN  CASE q.route = "minutes" ->
                IF logo THEN MinutesDoc(PopulateMeeting(Requested(r)), q.builtAt) ELSE <<>>
          [] q.route = "performance" -> PerformanceDoc(Subject(r), q.builtAt)
          [] q.route = "monthly" ->
                MonthlyBuild([IdleReq EXCEPT !.caller = q.caller, !.month = q.month,
                                            !.found = FindMeetings(JsDate(q.month - 1, 1), JsDate(q.month, 0))],
                             FindUsers, q.builtAt).doc
          [] OTHER -> <<>>

\* every request that has built is left with the document it builds alone
BuiltAsAlone == \A r \in Slots : Built(reqs[r]) => reqs[r].doc = DocAlone(r)

\* C25: no step of a report request writes to the Meeting or the User
\* collection, a step of one request changes nothing of another request, and
\* whatever requests run beside it, a request that has built is left with the
\* document it builds when it runs alone over the same records at the same time
C25_RequestsShareNothing ==
    /\ []BuiltAsAlone
    /\ [][/\ users' = users /\ meetings' = meetings
          /\ \A r \in Slots : reqs'[r] # reqs[r] => \A o \in Slots \ {r} : reqs'[o] = reqs[o]]_vars

C25_Witness ==
    \E r1, r2 \in Slots :
        /\ r1 # r2 /\ Built(reqs[r1]) /\ Built(reqs[r2])
        /\ reqs[r1].route = "monthly" /\ reqs[r2].route = "monthly"
        /\ reqs[r1].month # reqs[r2].month
        /\ Len(reqs[r1].found) = 2 /\ Len(reqs[r2].found) = 0
        /\ reqs[r1].doc = DocAlone(r1) /\ reqs[r2].doc = DocAlone(r2)
        /\ reqs[r1].doc # reqs[r2].doc

(***************************************************************************)
(* Avatar initials: userSchema.methods.generateAvatar and the same         *)
(* expression of the register route. A name is a sequence of characters.   *)
(***************************************************************************)
\* the longest name tried
MaxNameLen == 4

Space == " "

Tab == "\t"

\* the characters names are made of
NameChars == {"a", "l", "M", Space, Tab}

Names == UNION {[1..n -> NameChars] : n \in 0..MaxNameLen}

\* c.toUpperCase()
UpperChar(c) ==
    CASE c = "a" -> "A" [] c = "d" -> "D" [] c = "l" -> "L" [] c = "m" -> "M"
      [] c = "n" -> "N" [] c = "o" -> "O" [] c = "v" -> "V" [] c = "e" -> "E"
      [] c = "c" -> "C" [] c = "r" -> "R"
      [] OTHER -> c

RECURSIVE Split(_, _)
\* s.split(sep) for a separator of one character: a name without the separator
\* is one token, the empty name one empty token
Split(s, sep) ==
    IF \A i \in 1..Len(s) : s[i] # sep THEN <<s>>
    ELSE LET i == CHOOSE k \in 1..Len(s) : s[k] = sep /\ \A j \in 1..(k - 1) : s[j] # sep
         IN  <<SubSeq(s, 1, i - 1)>> \o Split(SubSeq(s, i + 1, Len(s)), sep)

\* tokens.map(n => n[0]).join(''): n[0] of an empty token is undefined, which
\* join renders as the empty string
JoinFirsts(tokens) ==
    Flatten([i \in 1..Len(tokens) |-> IF tokens[i] = <<>> THEN <<>> ELSE <<tokens[i][1]>>])

\* s.substring(0, 2)
Substring2(s) == SubSeq(s, 1, IF Len(s) < 2 THEN Len(s) ELSE 2)

\* initials that are cut to two characters before the tokens are joined: the
\* first two characters of the first token
generateAvatarOfFirstToken(name) ==
    LET first == Substring2(Split(name, Space)[1])
    IN  [i \in 1..Len(first) |-> UpperChar(first[i])]

\* this.name.split(' ').map(n => n[0]).join('').toUpperCase().substring(0, 2)
generateAvatar(name) ==
    LET joined == JoinFirsts(Split(name, Space))
    IN  Substring2([i \in 1..Len(joined) |-> UpperChar(joined[i])])

\* a user document whose avatar is not generated yet
NewDocument(name) == [pc |-> "new", name |-> name, avatar |-> <<>>]

InitAvatar ==
    /\ \E name \in Names : reqs = [r \in {"r1"} |-> NewDocument(name)]
    /\ users = <<>> /\ meetings = <<>> /\ now = ReportTime
    /\ sessions = {} /\ logo = TRUE /\ faults = 0

\* generateAvatar() is called on the document
GenerateAvatar(r) ==
    /\ r \in Slots
    /\ reqs[r].pc = "new"
    /\ reqs' = [reqs EXCEPT ![r] = [@ EXCEPT !.pc = "generated", !.avatar = generateAvatar(reqs[r].name)]]
    /\ UNCHANGED <<users, meetings, now, sessions, logo, faults>>

NextAvatar == \E r \in SlotIds : GenerateAvatar(r)

SpecAvatar == InitAvatar /\ [][NextAvatar]_vars

\* the maximal runs of characters of a name that are not in seps, in order
RECURSIVE TokensBy(_, _)
TokensBy(s, seps) ==
    IF s = <<>> THEN <<>>
    ELSE IF s[1] \in seps THEN TokensBy(Tail(s), seps)
    ELSE LET rest == {k \in 1..Len(s) : s[k] \in seps}
             end == IF rest = {} THEN Len(s) + 1 ELSE CHOOSE k \in rest : \A j \in rest : k <= j
         IN  <<SubSeq(s, 1, end - 1)>> \o TokensBy(SubSeq(s, end, Len(s)), seps)

\* the upper-cased first characters of the first two tokens by seps
InitialsBy(name, seps) ==
    LET tokens == TokensBy(name, seps)
    IN  [i \in 1..(IF Len(tokens) < 2 THEN Len(tokens) ELSE 2) |-> UpperChar(tokens[i][1])]

\* the documents whose avatar was generated
Generated == {r \in Slots : reqs[r].pc = "generated"}

AdaLovelace == <<"A", "d", "a", " ", "L", "o", "v", "e", "l", "a", "c", "e">>

Madonna == <<"M", "a", "d", "o", "n", "n", "a">>

\* C26 as claimed: the initials are the upper-cased first characters of the
\* first two tokens of the name, the tokens being separated by whitespace
C26_InitialsOfWhitespaceTokens ==
    \A r \in Generated : reqs[r].avatar = InitialsBy(reqs[r].name, {Space, Tab})

\* C26 amended: the initials are the upper-cased first characters of the first
\* two tokens of the name, the tokens being separated by space characters only
\* (a tab does not separate); the empty name gives the empty string, "Ada
\* Lovelace" gives "AL", "Madonna" gives "M", three tokens give two initials
C26_InitialsOfSpaceTokens ==
    /\ generateAvatar(<<>>) = <<>>
    /\ generateAvatar(AdaLovelace) = <<"A", "L">>
    /\ generateAvatar(Madonna) = <<"M">>
    /\ generateAvatar(<<"a", " ", "l", " ", "m">>) = <<"A", "L">>
    /\ generateAvatar(<<"a", Tab, "l">>) = <<"A">>
    /\ \A r \in Generated :
          /\ reqs[r].avatar = InitialsBy(reqs[r].name, {Space})
          /\ Len(reqs[r].avatar) <= 2

C26_Witness ==
    \E r \in Generated :
        /\ reqs[r].name = <<"a", Tab, "l", Space>>
        /\ reqs[r].avatar = <<"A">>
        /\ InitialsBy(reqs[r].name, {Space, Tab}) = <<"A", "L">>

\* three tokens and doubled spaces are cut to the initials of the first two
C26_WitnessThreeTokens ==
    \E r \in Generated : reqs[r].name = <<"a", Space, Space, "l">> /\ reqs[r].avatar = <<"A", "L">>

\* the name the stored users give to a reference, "Unassigned" when they give none
AssigneeName(ref) ==
    IF Unresolved(ref) THEN "Unassigned"
    ELSE (CHOOSE u \in Range(users) : u.id = ref).name

\* C27: every action item a Monthly Activity build collects carries the name of
\* the stored user its assignee reference names, and "Unassigned" only when the
\* reference is unset or names no stored user; the overdue list draws that name
C27_AssigneeNamed ==
    \A r \in MonthlyBuilt :
        LET found == reqs[r].found
            all == reqs[r].allActionItems
        IN  \A i \in 1..Len(found) : \A j \in 1..Len(found[i].minutes.actionItems) :
                LET item == found[i].minutes.actionItems[j]
                    entry == all[ItemsBefore(found, i - 1) + j]
                IN  /\ entry.assignee = AssigneeName(item.assignee)
                    /\ IsOverdue(item.deadline, item.status, reqs[r].builtAt) =>
                          Text("ActionItemsSummary", "Assignee: " \o AssigneeName(item.assignee)
                                   \o " | Meeting: " \o found[i].title
                                   \o " | Due: " \o formatDate(item.deadline)) \in Range(reqs[r].doc)

\* what the build shows instead: every collected item reads "Unassigned"
C27_AlwaysUnassigned ==
    \A r \in MonthlyBuilt : \A k \in 1..Len(reqs[r].allActionItems) :
        reqs[r].allActionItems[k].assignee = "Unassigned"

\* an overdue item assigned to a stored user is listed as "Unassigned"
C27_Reached ==
    \E r \in MonthlyBuilt : \E i \in 1..Len(reqs[r].found) :
        LET item == reqs[r].found[i].minutes.actionItems[1]
        IN  /\ Len(reqs[r].found[i].minutes.actionItems) = 1
            /\ item.assignee = "u2" /\ ~Unresolved(item.assignee)
            /\ Text("ActionItemsSummary", "Assignee: Unassigned | Meeting: Meeting 1 | Due: "
                        \o formatDate(item.deadline)) \in Range(reqs[r].doc)

\* the meeting a Meeting Minutes request names is stored
MeetingStored(q) == \E i \in 1..Len(meetings) : meetings[i].id = q.meetingId

\* the caller of the request is one the route's access rule lets pass
Allowed(q) ==
    CASE q.route = "minutes" ->
            /\ MeetingStored(q)
            /\ \/ (CHOOSE m \in Range(meetings) : m.id = q.meetingId).createdBy = q.caller.id
               \/ q.caller.role = "Admin"
      [] q.route = "performance" -> q.caller.id = q.userId \/ q.caller.role = "Admin"
      [] q.route = "monthly" -> q.caller.role \in {"Admin", "Secretary"}
      [] OTHER -> FALSE

\* C28: a document is started only for a caller the route's rule lets pass (the
\* meeting's creator or an Admin; the user themself or an Admin; an Admin or a
\* Secretary), and every other caller of a request whose answer is out has the
\* 403 failure and no document, the meeting asked for being a stored one
C28_NoDocumentWithoutAccess ==
    \A r \in Slots :
        LET q == reqs[r]
        IN  /\ (q.piped \/ q.ended \/ q.doc # <<>> \/ q.body = "pdf") => Allowed(q)
            /\ (q.pc = "done" /\ ~q.fault /\ ~Allowed(q) /\ (q.route = "minutes" => MeetingStored(q)))
                  => FailedWith(q, 403)

C28_Witness ==
    \E r1, r2 \in Slots :
        /\ reqs[r1].route = "minutes" /\ reqs[r1].pc = "done" /\ reqs[r1].meetingId = "m1"
        /\ reqs[r1].caller.id = "u2" /\ FailedWith(reqs[r1], 403)
        /\ \E i \in 1..Len(Requested(r1).attendees) : Requested(r1).attendees[i].user = "u2"
        /\ reqs[r2].route = "minutes" /\ reqs[r2].caller.role = "Admin" /\ reqs[r2].meetingId = "m1"
        /\ reqs[r2].ended /\ reqs[r2].status = 200

\* the two other routes refuse a Member who asks for another user's performance
\* or for the monthly report
C28_WitnessElsewhere ==
    \E r1, r2 \in Slots :
        /\ reqs[r1].route = "performance" /\ reqs[r1].caller.id = "u2" /\ reqs[r1].userId = "u1"
        /\ FailedWith(reqs[r1], 403)
        /\ reqs[r2].route = "monthly" /\ reqs[r2].caller.id = "u2" /\ FailedWith(reqs[r2], 403)

\* a complete PDF document and nothing else
PdfOutcome(q) == q.piped /\ q.ended /\ q.body = "pdf" /\ q.status = 200 /\ q.doc # <<>>

\* a JSON failure and nothing else
JsonOutcome(q) == q.body = "json" /\ q.status \in {403, 404, 500} /\ ~q.piped /\ ~q.ended /\ q.doc = <<>>

\* C29: every report request whose answer is out has either a complete PDF
\* document, ended, or a JSON failure without any document: never a JSON
\* failure on a response a document was piped to, never a piped document that
\* is not ended
C29_ExactlyOneOutcome ==
    \A r \in Slots :
        LET q == reqs[r]
        IN  /\ q.pc = "done" => (PdfOutcome(q) \/ JsonOutcome(q))
            /\ q.piped => q.ended
            /\ q.body = "json" => ~q.piped

\* the same for the Member Performance requests, and for the Meeting Minutes
\* requests when the logo file is in reach
C29_ExactlyOneOutcomeElsewhere ==
    \A r \in Slots :
        LET q == reqs[r]
        IN  (q.pc = "done" /\ (q.route = "performance" \/ (q.route = "minutes" /\ logo)))
                => (PdfOutcome(q) \/ JsonOutcome(q))

\* a Meeting Minutes request answered 500 after its document was piped
C29_ReachedMinutes ==
    \E r \in Slots :
        /\ reqs[r].route = "minutes" /\ reqs[r].pc = "done" /\ ~reqs[r].fault
        /\ reqs[r].piped /\ ~reqs[r].ended /\ reqs[r].status = 500 /\ reqs[r].body = "json"

\* a Monthly Activity request answered 500 after its document was piped and drawn
C29_ReachedMonthly ==
    \E r \in Slots :
        /\ reqs[r].route = "monthly" /\ reqs[r].pc = "done" /\ ~reqs[r].fault /\ logo
        /\ reqs[r].piped /\ ~reqs[r].ended /\ reqs[r].status = 500 /\ reqs[r].body = "json"
        /\ Len(reqs[r].doc) > 10

(***************************************************************************)
(* Registration: POST /register over the User collection, whose schema     *)
(* declares email unique and studentId unique and sparse.                  *)
(***************************************************************************)
\* normalised e-mail addresses
Emails == {"ada@sit.edu", "bob@sit.edu"}

\* student ids of the format the validator asks for; the field is optional
StudentIds == {Undefined, "SIT202401", "SIT202402"}

\* req.body of a register request; valid: the validators found no error
Bodies ==
    [email : Emails, studentId : StudentIds, name : {<<"A", "d", "a", " ", "L", "o", "v", "e", "l", "a", "c", "e">>},
     valid : BOOLEAN]

\* the most register requests a slot takes
MaxRegisters == 2

IdleRegister(n) ==
    [pc |-> "idle", body |-> [email |-> Undefined, studentId |-> Undefined, name |-> <<>>, valid |-> FALSE],
     existing |-> FALSE, user |-> NoRef, status |-> 0, token |-> NoRef, taken |-> n]

\* new User({...}) of the register route
NewUser(id, body) ==
    [id |-> id, email |-> body.email, name |-> body.name, role |-> "Member",
     studentId |-> body.studentId, avatar |-> generateAvatar(body.name),
     performance |-> Performance(0, 0, 0, 1, 0, <<>>)]

\* the ids new documents get
NewIds == {"n1", "n2", "n3", "n4"}

InitRegister ==
    /\ users \in {<<>>, <<NewUser("n4", [email |-> "ada@sit.edu", studentId |-> "SIT202401",
                                         name |-> <<"M", "a", "d", "o", "n", "n", "a">>, valid |-> TRUE])>>}
    /\ reqs = [r \in {"r1", "r2"} |-> IdleRegister(0)]
    /\ meetings = <<>> /\ now = ReportTime
    /\ sessions = {} /\ logo = TRUE /\ faults = 0

\* User.findOne({$or: [{email}, ...(studentId ? [{studentId}] : [])]})
FindExisting(body) ==
    SelectSeq(users, LAMBDA u : \/ u.email = body.email
                                \/ (~Falsy(body.studentId) /\ u.studentId = body.studentId))

\* a collection without the unique indexes
NoIndexRejects(user) == FALSE

\* the unique index on email and the unique sparse index on studentId: an insert
\* is rejected with a duplicate key error when a stored document has the email,
\* or the studentId when the new document has one
IndexRejects(user) ==
    \E i \in 1..Len(users) :
        \/ users[i].email = user.email
        \/ (user.studentId # Undefined /\ users[i].studentId = user.studentId)

\* the handler up to its await: the validation result, then findOne is issued
RegisterRequest(r, body) ==
    /\ r \in Slots
    /\ reqs[r].pc = "idle"
    /\ reqs[r].taken < MaxRegisters
    /\ LET q == [reqs[r] EXCEPT !.body = body, !.taken = @ + 1]
       IN  reqs' = [reqs EXCEPT ![r] =
                IF ~body.valid THEN [q EXCEPT !.pc = "done", !.status = 400]
                ELSE [q EXCEPT !.pc = "register_find"]]
    /\ UNCHANGED <<users, meetings, now, sessions, logo, faults>>

\* findOne returns: 409, or the document is made and save is issued
RegisterFound(r) ==
    /\ r \in Slots
    /\ reqs[r].pc = "register_find"
    /\ LET q == reqs[r]
       IN  reqs' = [reqs EXCEPT ![r] =
                IF FindExisting(q.body) # <<>>
                THEN [q EXCEPT !.pc = "done", !.existing = TRUE, !.status = 409]
                ELSE [q EXCEPT !.pc = "register_save"]]
    /\ UNCHANGED <<users, meetings, now, sessions, logo, faults>>

\* save returns: the document is stored, the token signed and 201 sent; or the
\* insert is rejected and the catch sends 500
RegisterSaved(r) ==
    /\ r \in Slots
    /\ reqs[r].pc = "register_save"
    /\ LET q == reqs[r]
           user == NewUser(CHOOSE id \in NewIds : \A i \in 1..Len(users) : users[i].id # id, q.body)
       IN  IF IndexRejects(user)
           THEN /\ reqs' = [reqs EXCEPT ![r] = [q EXCEPT !.pc = "done", !.status = 500]]
                /\ users' = users
           ELSE /\ reqs' = [reqs EXCEPT ![r] = [q EXCEPT !.pc = "done", !.status = 201,
                                                        !.user = user.id, !.token = user.id]]
                /\ users' = Append(users, user)
    /\ UNCHANGED <<meetings, now, sessions, logo, faults>>

\* the response is over; the slot takes the next request
RegisterFinish(r) ==
    /\ r \in Slots
    /\ reqs[r].pc = "done"
    /\ reqs' = [reqs EXCEPT ![r] = IdleRegister(reqs[r].taken)]
    /\ UNCHANGED <<users, meetings, now, sessions, logo, faults>>

NextRegister ==
    \E r \in SlotIds :
        \/ \E body \in Bodies : RegisterRequest(r, body)
        \/ RegisterFound(r)
        \/ RegisterSaved(r)
        \/ RegisterFinish(r)

SpecRegister == InitRegister /\ [][NextRegister]_vars

\* C30: no two stored users share an email and no two share a studentId, after
\* any interleaving of register requests; a register request whose findOne
\* found a user with its email or studentId has the 409 answer, no user and no
\* token, and only a request answered 201 has a user and a token
C30_UniqueEmailAndStudentId ==
    /\ \A i, j \in 1..Len(users) :
          i # j => /\ users[i].email # users[j].email
                   /\ (users[i].studentId # Undefined => users[i].studentId # users[j].studentId)
                   /\ users[i].id # users[j].id
    /\ \A r \in Slots :
          LET q == reqs[r]
          IN  /\ q.existing => (q.pc = "done" /\ q.status = 409 /\ q.user = NoRef /\ q.token = NoRef)
              /\ (q.user # NoRef \/ q.token # NoRef) =>
                    /\ q.status = 201 /\ q.token = q.user
                    /\ \E i \in 1..Len(users) :
                          /\ users[i].id = q.user /\ users[i].email = q.body.email
                          /\ users[i].studentId = q.body.studentId

\* two requests with the same email both passed the check; one was stored, the
\* other rejected by the index
C30_Witness ==
    \E r1, r2 \in Slots :
        /\ r1 # r2
        /\ reqs[r1].pc = "done" /\ reqs[r1].status = 201
        /\ reqs[r2].pc = "done" /\ reqs[r2].status = 500 /\ ~reqs[r2].existing
        /\ reqs[r1].body.email = reqs[r2].body.email
        /\ Cardinality({i \in 1..Len(users) : users[i].email = reqs[r1].body.email}) = 1

\* a request found the stored studentId under another email and was answered 409
C30_WitnessConflict ==
    \E r \in Slots :
        /\ reqs[r].pc = "done" /\ reqs[r].status = 409 /\ reqs[r].existing
        /\ \A i \in 1..Len(users) : users[i].email # reqs[r].body.email
        /\ \E i \in 1..Len(users) : users[i].studentId = reqs[r].body.studentId

====
